---- MODULE Spec2Model ----
(***************************************************************************)
(* A model of the ai-operators repository: the AkamaiAgent reconcile       *)
(* handlers with their deployment backend and status service, the pipeline *)
(* updater cycle, and the pipeline configuration loader.                   *)
(*                                                                         *)
(* Strings whose content matters are sequences of tokens, so that          *)
(* formatting a message from its parts and looking for a phrase inside it  *)
(* are computed and not assumed.  An absent string is the empty sequence.  *)
(***************************************************************************)
EXTENDS Integers, Sequences, FiniteSets, TLC

VARIABLES
    kb_crs,        \* names of the AkamaiKnowledgeBase objects in the agent's namespace
    services,      \* the Services labelled modelType, in list order
    workload,      \* the backing workload (ArgoCD Application) of the agent
    agent_status,  \* the status subresource of the AkamaiAgent object
    invocation,    \* what the handler run by the last step did
    _response_cache,      \* PipelineUpdater._response_cache: source name -> response
    cycle,                \* the position of PipelineUpdater.run in its cycle
    request,              \* the update_source call in progress or last finished
    inflight,             \* number of fetches awaiting their response
    last_modified_fetch,  \* per source, the response of its latest modified fetch
    _current_config,      \* PipelineConfigLoader._current_config: name -> source config
    refresh,              \* the update_config call in progress or last finished
    disk,                 \* the files that exist, as resolved paths
    download,             \* the last get_pipeline_files call and how it ended
    deployer,             \* the backend AgentHandler was constructed with
    backing,              \* the agent's backing workload as that backend keeps it
    manifests,            \* /tmp/agents/<name>: the manifests templated there
    backend_call,         \* the last call on the backend and how it ended
    phase,                \* the operator process: starting, running, stopped
    WATCHED_NAMESPACES,   \* main.WATCHED_NAMESPACES
    tasks,                \* the two background tasks: where each one stands
    config_loader,        \* PIPELINE_RUNTIME_CONFIG.config_loader and its refreshes
    handlers,             \* per knowledge-base object: its pending event and handler
    blocked,              \* the coroutine that holds the event loop's thread in a call
    built,                \* the last create_agent_data call and what it built
    sync,                 \* PipelineUpdater.run over the loader's live snapshot
    conversion,           \* the last spec mapping decoded and encoded again
    workloads,            \* the backing workloads of all agents, and the last call
    iteration             \* the dict iterator of PipelineUpdater.run in its cycle

agent_vars == <<kb_crs, services, workload, agent_status, invocation>>

updater_vars == <<_response_cache, cycle, request, inflight, last_modified_fetch>>

config_vars == <<_current_config, refresh>>

downloader_vars == <<disk, download>>
backend_vars == <<deployer, backing, manifests, backend_call>>
operator_vars == <<phase, WATCHED_NAMESPACES, tasks, config_loader, handlers, blocked>>
data_vars == <<built>>
sync_vars == <<sync>>
extra_vars == <<conversion, workloads, iteration>>
rest_vars == <<operator_vars, data_vars, sync_vars, extra_vars>>

vars == <<agent_vars, updater_vars, config_vars, downloader_vars, backend_vars, rest_vars>>

----------------------------------------------------------------------------
(* Strings *)

NoMsg == <<>>

\* "Knowledge base" in str(e)
in_str(phrase, text) == \E i \in DOMAIN text : text[i] = phrase

\* Python truthiness of an optional string
Truthy(s) == s # <<>>

----------------------------------------------------------------------------
(* The agent object and the cluster around it *)

NAMESPACE == "team-a"
NAME == "agent1"

KB_NAMES == {"my-kb"}

Llama == <<"llama">>
KbModel == <<"Knowledge base", " v2">>

Tool(type, name) == [type |-> type, name |-> name]

\* The AkamaiAgent specs an event can carry.
AgentSpec(model, tools) ==
    [foundation_model |-> model, system_prompt |-> "hi", routes |-> <<>>, tools |-> tools]

AgentSpecs ==
    { AgentSpec(Llama, <<>>),
      AgentSpec(Llama, <<Tool("function", "calc"), Tool("knowledgeBase", "my-kb")>>),
      AgentSpec(Llama, <<Tool("knowledgeBase", "")>>),
      AgentSpec(KbModel, <<>>) }

Service(name, namespace, model) == [name |-> name, namespace |-> namespace, model |-> model]

\* What the cluster can hold as model services: none, or two for llama.
ServiceLists ==
    { <<>>,
      <<Service("llama-svc", "models", Llama), Service("llama-b", "other", Llama)>> }

NoConfig == [pipeline_name |-> "", params |-> ""]
KbConfig(kb_name) == [pipeline_name |-> "emb", params |-> "x=1"]

NoAgentData ==
    [namespace |-> "", name |-> "", foundation_model |-> <<>>,
     foundation_model_endpoint |-> <<>>, system_prompt |-> "",
     routes |-> <<>>, tools |-> <<>>]

Absent == [present |-> FALSE, status |-> "none", data |-> NoAgentData]

NoStatus ==
    [phase |-> "", deploymentId |-> <<>>, message |-> <<>>, error |-> <<>>,
     kb_name |-> "", kb_status |-> "", kb_error |-> <<>>]

Call(op, arg) == [op |-> op, arg |-> arg]

\* handler: the handler that ran; calls: the backend, gateway and status calls it
\* made, in order; seen: what the backend reported about the workload;
\* outcome: returned or raised; error: the exception its except block caught;
\* wrote: whether the failure status write went through; agent_data: the
\* AgentData it built.
Idle ==
    [handler |-> "none", calls |-> <<>>, seen |-> "n/a", outcome |-> "none",
     error |-> NoMsg, wrote |-> "n/a", agent_data |-> NoAgentData]

\* The calls of a handler that can raise for a reason outside the program
\* (a cluster API error other than 404, a failing subprocess).
FaultPoints ==
    { "none", "get_custom_object", "list_service_for_all_namespaces",
      "get_deployment_status", "create_agent", "update_agent", "delete_agent",
      "set_agent_deployed", "clear_agent_failed" }

\* str(e) of a cluster API error
ApiException(op) == <<"ApiException">>

----------------------------------------------------------------------------
(* K8s gateway and AgentData *)

\* get_custom_object answers None for 404, so a missing KnowledgeBase becomes
\* the ValueError raised here; any other API error propagates.
fetch_knowledge_base_config(namespace, kb_name, kbs, fault) ==
    IF fault = "get_custom_object"
    THEN [err |-> ApiException("get_custom_object"), config |-> NoConfig]
    ELSE IF kb_name \notin kbs
    THEN [err |-> <<"Knowledge base", " '", kb_name, "' not found in namespace '",
                    namespace, "'">>,
          config |-> NoConfig]
    ELSE [err |-> NoMsg, config |-> KbConfig(kb_name)]

get_foundation_model_endpoint(model_name, svcs, fault) ==
    LET items == SelectSeq(svcs, LAMBDA s : s.model = model_name) IN
    IF fault = "list_service_for_all_namespaces"
    THEN [err |-> ApiException("list_service_for_all_namespaces"), endpoint |-> <<>>]
    ELSE IF items # <<>>
    THEN [err |-> NoMsg,
          endpoint |-> <<items[1].name, ".", items[1].namespace, ".svc.cluster.local">>]
    ELSE [err |-> <<"Foundation model '">> \o model_name \o <<"' not found">>,
          endpoint |-> <<>>]

\* The tool loop of create_agent_data: a knowledgeBase tool with a name gets
\* the KnowledgeBase's config; the first lookup that raises ends the loop.
RECURSIVE enrich_tools(_, _, _, _)
enrich_tools(namespace, tools, kbs, fault) ==
    IF tools = <<>> THEN [err |-> NoMsg, tools |-> <<>>, calls |-> <<>>]
    ELSE
        LET tool == Head(tools)
            lookup == tool.type = "knowledgeBase" /\ tool.name # ""
            kb == fetch_knowledge_base_config(namespace, tool.name, kbs, fault)
            made == IF lookup
                    THEN <<Call("fetch_knowledge_base_config", <<tool.name>>)>>
                    ELSE <<>>
            copy == [type |-> tool.type, name |-> tool.name,
                     config |-> IF lookup THEN kb.config ELSE NoConfig]
        IN  IF lookup /\ kb.err # NoMsg
            THEN [err |-> kb.err, tools |-> <<>>, calls |-> made]
            ELSE LET rest == enrich_tools(namespace, Tail(tools), kbs, fault) IN
                 [err |-> rest.err,
                  tools |-> IF rest.err = NoMsg THEN <<copy>> \o rest.tools ELSE <<>>,
                  calls |-> made \o rest.calls]

create_agent_data(namespace, name, agent, kbs, svcs, fault) ==
    LET enriched == enrich_tools(namespace, agent.tools, kbs, fault)
        ep == get_foundation_model_endpoint(agent.foundation_model, svcs, fault)
    IN  IF enriched.err # NoMsg
        THEN [err |-> enriched.err, calls |-> enriched.calls, data |-> NoAgentData]
        ELSE [err |-> ep.err,
              calls |-> Append(enriched.calls,
                               Call("get_foundation_model_endpoint", agent.foundation_model)),
              data |-> IF ep.err # NoMsg THEN NoAgentData
                       ELSE [namespace |-> namespace, name |-> name,
                             foundation_model |-> agent.foundation_model,
                             foundation_model_endpoint |-> ep.endpoint,
                             system_prompt |-> agent.system_prompt,
                             routes |-> agent.routes,
                             tools |-> enriched.tools]]

\* The AgentData the delete handler builds itself.
minimal_agent_data(namespace, name, agent) ==
    [namespace |-> namespace, name |-> name,
     foundation_model |-> agent.foundation_model,
     foundation_model_endpoint |-> <<>>,
     system_prompt |-> agent.system_prompt,
     routes |-> <<>>, tools |-> <<>>]

----------------------------------------------------------------------------
(* Deployment backend (ArgoCDDeployer) *)

app_name(agent_data) == <<"agent-", agent_data.name>>

update_agent(agent_data, wl, fault) ==
    IF fault = "update_agent"
    THEN [err |-> ApiException("patch_custom_object"), workload |-> wl, id |-> <<>>]
    ELSE IF ~wl.present
    THEN [err |-> ApiException("patch_custom_object 404"), workload |-> wl, id |-> <<>>]
    ELSE [err |-> NoMsg, workload |-> [wl EXCEPT !.data = agent_data],
          id |-> app_name(agent_data)]

create_agent_conflict_raises(agent_data, wl, fault) ==
    IF fault = "create_agent" \/ wl.present
    THEN [err |-> ApiException("create_custom_object"), workload |-> wl, id |-> <<>>]
    ELSE [err |-> NoMsg,
          workload |-> [present |-> TRUE, status |-> "empty", data |-> agent_data],
          id |-> app_name(agent_data)]

\* A 409 on create means the Application exists: carry on as an update.
create_agent(agent_data, wl, fault) ==
    IF fault = "create_agent"
    THEN [err |-> ApiException("create_custom_object"), workload |-> wl, id |-> <<>>]
    ELSE IF wl.present
    THEN update_agent(agent_data, wl, fault)
    ELSE [err |-> NoMsg,
          workload |-> [present |-> TRUE, status |-> "empty", data |-> agent_data],
          id |-> app_name(agent_data)]

delete_agent_raises_missing(agent_data, wl, fault) ==
    IF fault = "delete_agent" \/ ~wl.present
    THEN [err |-> ApiException("delete_custom_object"), workload |-> wl, found |-> "n/a"]
    ELSE [err |-> NoMsg, workload |-> Absent, found |-> "present"]

\* A 404 on delete is logged as "already deleted" and is not an error.
delete_agent(agent_data, wl, fault) ==
    IF fault = "delete_agent"
    THEN [err |-> ApiException("delete_custom_object"), workload |-> wl, found |-> "n/a"]
    ELSE [err |-> NoMsg, workload |-> Absent,
          found |-> IF wl.present THEN "present" ELSE "absent"]

\* None for a missing Application, else its .status, which is {} until the
\* GitOps controller has written one.
get_deployment_status(agent_data, wl, fault) ==
    IF fault = "get_deployment_status"
    THEN [err |-> ApiException("get_custom_object"), status |-> "none"]
    ELSE [err |-> NoMsg, status |-> IF wl.present THEN wl.status ELSE "none"]

\* `if status:` on an Optional[dict]
status_truthy(status) == status = "nonempty"

already_deployed_never(status) == FALSE

\* created skips the creation when the backend reports a status.
already_deployed(status) == status_truthy(status)

----------------------------------------------------------------------------
(* Status service *)

\* A merge patch of the status subresource: the fields the patch names are
\* replaced, the others stay.
merge_patch(status, patch) ==
    [f \in DOMAIN status |-> IF f \in DOMAIN patch THEN patch[f] ELSE status[f]]

deployed_patch(deployment_id) ==
    [phase |-> "Deployed", deploymentId |-> deployment_id,
     message |-> <<"Agent successfully deployed">>]

recovered_patch ==
    [phase |-> "Deployed", message |-> <<"Agent deployment recovered">>]

failed_patch(error) ==
    [phase |-> "Failed", message |-> <<"Agent deployment failed: ">> \o error,
     error |-> error]

kb_error_patch(error) ==
    [phase |-> "Failed", kb_status |-> "Error", kb_error |-> error,
     message |-> <<"Knowledge base error: ">> \o error, error |-> error]

\* One status call made by a handler.  `run` is the handler's progress so far;
\* the call is recorded, then the patch is applied unless the API call raises.
_update_agent_status(run, op, arg, patch, fails) ==
    IF fails
    THEN [run EXCEPT !.calls = Append(@, Call(op, arg)), !.err = ApiException(op)]
    ELSE [run EXCEPT !.calls = Append(@, Call(op, arg)),
                     !.status = merge_patch(@, patch), !.err = NoMsg]

set_agent_deployed(run, deployment_id, fault) ==
    _update_agent_status(run, "set_agent_deployed", deployment_id,
                         deployed_patch(deployment_id), fault = "set_agent_deployed")

clear_agent_failed(run, fault) ==
    _update_agent_status(run, "clear_agent_failed", <<>>,
                         recovered_patch, fault = "clear_agent_failed")

set_agent_failed(run, error, fails) ==
    _update_agent_status(run, "set_agent_failed", error, failed_patch(error), fails)

set_knowledge_base_error(run, error, fails) ==
    _update_agent_status(run, "set_knowledge_base_error", error,
                         kb_error_patch(error), fails)

----------------------------------------------------------------------------
(* Agent handlers *)

Step(run, op, err) == [run EXCEPT !.calls = Append(@, Call(op, <<>>)), !.err = err]

\* The try block of AgentHandler.created.
created_try(namespace, name, agent, fault) ==
    LET d == create_agent_data(namespace, name, agent, kb_crs, services, fault)
        r0 == [calls |-> d.calls, status |-> agent_status, workload |-> workload,
               err |-> d.err, agent_data |-> d.data, seen |-> "n/a"]
        s == get_deployment_status(d.data, workload, fault)
        r1 == [Step(r0, "get_deployment_status", s.err) EXCEPT
                   !.seen = IF s.err # NoMsg THEN "n/a"
                            ELSE IF status_truthy(s.status) THEN "present" ELSE "absent"]
        c == create_agent(d.data, workload, fault)
        r2 == [Step(r1, "create_agent", c.err) EXCEPT !.workload = c.workload]
        r3 == set_agent_deployed(r2, c.id, fault)
    IN  IF d.err # NoMsg THEN r0
        ELSE IF s.err # NoMsg THEN r1
        ELSE IF already_deployed(s.status) THEN set_agent_deployed(r1, <<name>>, fault)
        ELSE IF c.err # NoMsg THEN r2
        ELSE IF r3.err # NoMsg THEN r3
        ELSE clear_agent_failed(r3, fault)

\* The try block of AgentHandler.updated.
updated_try(namespace, name, agent, fault) ==
    LET d == create_agent_data(namespace, name, agent, kb_crs, services, fault)
        r0 == [calls |-> d.calls, status |-> agent_status, workload |-> workload,
               err |-> d.err, agent_data |-> d.data, seen |-> "n/a"]
        u == update_agent(d.data, workload, fault)
        r1 == [Step(r0, "update_agent", u.err) EXCEPT !.workload = u.workload]
        r2 == set_agent_deployed(r1, u.id, fault)
    IN  IF d.err # NoMsg THEN r0
        ELSE IF u.err # NoMsg THEN r1
        ELSE IF r2.err # NoMsg THEN r2
        ELSE clear_agent_failed(r2, fault)

\* A delete that builds the full AgentData first, as created and updated do.
deleted_try_resolving(namespace, name, agent, fault) ==
    LET d == create_agent_data(namespace, name, agent, kb_crs, services, fault)
        r0 == [calls |-> d.calls, status |-> agent_status, workload |-> workload,
               err |-> d.err, agent_data |-> d.data, seen |-> "n/a"]
        x == delete_agent(d.data, workload, fault)
    IN  IF d.err # NoMsg THEN r0
        ELSE [Step(r0, "delete_agent", x.err) EXCEPT !.workload = x.workload,
                                                      !.seen = x.found]

\* The try block of AgentHandler.deleted.
deleted_try(namespace, name, agent, fault) ==
    LET data == minimal_agent_data(namespace, name, agent)
        r0 == [calls |-> <<>>, status |-> agent_status, workload |-> workload,
               err |-> NoMsg, agent_data |-> data, seen |-> "n/a"]
        x == delete_agent(data, workload, fault)
    IN  [Step(r0, "delete_agent", x.err) EXCEPT !.workload = x.workload,
                                                 !.seen = x.found]

\* An except block that does not look at the text of the error.
except_block_unrouted(run, write_fails) ==
    set_agent_failed(run, run.err, write_fails)

\* `except Exception as e:` of created and updated: one status write chosen by
\* the text of the error, then `raise`.  When the write raises too, its error
\* is the one that leaves the handler.
except_block(run, write_fails) ==
    LET e == run.err IN
    IF in_str("Knowledge base", e)
    THEN set_knowledge_base_error(run, e, write_fails)
    ELSE set_agent_failed(run, e, write_fails)

\* What is left of an invocation once the handler has returned or raised.
Finish(handler, run, caught, wrote, outcome) ==
    /\ agent_status' = run.status
    /\ workload' = run.workload
    /\ invocation' = [handler |-> handler, calls |-> run.calls, seen |-> run.seen,
                      outcome |-> outcome, error |-> caught, wrote |-> wrote,
                      agent_data |-> run.agent_data]
    /\ UNCHANGED <<kb_crs, services, updater_vars, config_vars, downloader_vars, backend_vars, rest_vars>>

Handle_swallow(handler, run) ==
    IF run.err = NoMsg
    THEN Finish(handler, run, NoMsg, "n/a", "returned")
    ELSE \E write_fails \in BOOLEAN :
            Finish(handler, except_block(run, write_fails), run.err,
                   IF write_fails THEN "failed" ELSE "ok",
                   IF write_fails THEN "returned" ELSE "raised")

\* created and updated: the try block, and on an exception the except block,
\* whose status write may itself raise, and the re-raise.
Handle(handler, run) ==
    IF run.err = NoMsg
    THEN Finish(handler, run, NoMsg, "n/a", "returned")
    ELSE \E write_fails \in BOOLEAN :
            Finish(handler, except_block(run, write_fails), run.err,
                   IF write_fails THEN "failed" ELSE "ok", "raised")

created ==
    \E agent \in AgentSpecs,
       fault \in FaultPoints \ {"delete_agent"} :
        Handle("created", created_try(NAMESPACE, NAME, agent, fault))

updated ==
    \E agent \in AgentSpecs,
       fault \in FaultPoints \ {"delete_agent", "create_agent", "get_deployment_status"} :
        Handle("updated", updated_try(NAMESPACE, NAME, agent, fault))

\* deleted logs and re-raises; it writes no status.
deleted ==
    \E agent \in AgentSpecs, fault \in {"none", "delete_agent"} :
        LET run == deleted_try(NAMESPACE, NAME, agent, fault) IN
        Finish("deleted", run, run.err, "n/a",
               IF run.err = NoMsg THEN "returned" ELSE "raised")

----------------------------------------------------------------------------
(* The cluster changing under the operator *)

KnowledgeBaseChange ==
    /\ \E kbs \in SUBSET KB_NAMES : kbs # kb_crs /\ kb_crs' = kbs
    /\ invocation' = Idle
    /\ UNCHANGED <<services, workload, agent_status, updater_vars, config_vars, downloader_vars, backend_vars, rest_vars>>

ServiceChange ==
    /\ \E svcs \in ServiceLists : svcs # services /\ services' = svcs
    /\ invocation' = Idle
    /\ UNCHANGED <<kb_crs, workload, agent_status, updater_vars, config_vars, downloader_vars, backend_vars, rest_vars>>

\* The GitOps controller reports on the Application, or someone removes it.
WorkloadChange ==
    /\ workload.present
    /\ \/ workload.status = "empty" /\ workload' = [workload EXCEPT !.status = "nonempty"]
       \/ workload' = Absent
    /\ invocation' = Idle
    /\ UNCHANGED <<kb_crs, services, agent_status, updater_vars, config_vars, downloader_vars, backend_vars, rest_vars>>

----------------------------------------------------------------------------
(* Claims about the agent handlers, checked under SpecAgent *)

Ops(calls) == [i \in DOMAIN calls |-> calls[i].op]

IsPrefix(a, b) == Len(a) <= Len(b) /\ \A i \in DOMAIN a : a[i] = b[i]

Count(calls, ops) == Cardinality({i \in DOMAIN calls : calls[i].op \in ops})

DeployedWrites == {"set_agent_deployed", "clear_agent_failed"}
FailureWrites == {"set_agent_failed", "set_knowledge_base_error"}
StatusWrites == DeployedWrites \cup FailureWrites \cup {"set_knowledge_base_linked"}
Lookups == {"fetch_knowledge_base_config", "get_foundation_model_endpoint"}

\* The calls of the try block that follow the building of AgentData.
BodyCalls(calls) ==
    SelectSeq(calls, LAMBDA c : c.op \notin Lookups \cup FailureWrites)

CreateSequence ==
    <<"get_deployment_status", "create_agent", "set_agent_deployed", "clear_agent_failed">>

\* C1: in the create handler, a present (non-empty) backend status means
\* create_agent is not called and set_agent_deployed is issued with the known
\* deployment id (the agent's name); an absent status means create_agent,
\* set_agent_deployed, clear_agent_failed are called in exactly that order, each
\* only after the one before it succeeded, and a handler that returns has made
\* all three and leaves phase = Deployed with a non-empty deploymentId.
C1_CreateOrder ==
    invocation.handler = "created" =>
        LET body == BodyCalls(invocation.calls) IN
        /\ invocation.seen = "present" =>
              /\ Ops(body) = <<"get_deployment_status", "set_agent_deployed">>
              /\ body[2].arg = <<NAME>>
        /\ invocation.seen = "absent" =>
              /\ IsPrefix(Ops(body), CreateSequence)
              /\ Len(body) >= 2
              /\ invocation.outcome = "returned" => Ops(body) = CreateSequence
              /\ Len(body) < 4 => invocation.error # NoMsg
        /\ invocation.seen # "n/a" /\ invocation.outcome = "returned" =>
              /\ agent_status.phase = "Deployed"
              /\ agent_status.deploymentId # <<>>
              /\ agent_status.deploymentId =
                    body[CHOOSE i \in DOMAIN body : body[i].op = "set_agent_deployed"].arg

C1_Witness ==
    /\ invocation.handler = "created"
    /\ invocation.seen = "absent"
    /\ invocation.outcome = "returned"
    /\ Ops(BodyCalls(invocation.calls)) = CreateSequence
    /\ agent_status.deploymentId = <<"agent-", NAME>>

\* C2: a create or update that fails with an error whose text contains
\* "Knowledge base" issues set_knowledge_base_error and never set_agent_failed,
\* issues no Deployed status write, and its write leaves
\* knowledgeBase.status = "Error" and a phase other than Deployed; any other
\* failure issues set_agent_failed and never set_knowledge_base_error.
C2_ErrorRouting ==
    invocation.handler \in {"created", "updated"} /\ invocation.error # NoMsg =>
        IF in_str("Knowledge base", invocation.error)
        THEN /\ Count(invocation.calls, {"set_knowledge_base_error"}) = 1
             /\ Count(invocation.calls, {"set_agent_failed"}) = 0
             /\ Count(invocation.calls, DeployedWrites) = 0
             /\ invocation.wrote = "ok" =>
                   /\ agent_status.kb_status = "Error"
                   /\ agent_status.kb_error = invocation.error
                   /\ agent_status.phase # "Deployed"
        ELSE /\ Count(invocation.calls, {"set_agent_failed"}) = 1
             /\ Count(invocation.calls, {"set_knowledge_base_error"}) = 0

\* A failure that is not about a knowledge base, routed by its text alone.
C2_Witness ==
    /\ invocation.handler = "updated"
    /\ invocation.error = <<"Foundation model '", "Knowledge base", " v2", "' not found">>
    /\ invocation.wrote = "ok"
    /\ agent_status.kb_status = "Error"
    /\ agent_status.phase = "Failed"

\* C3: a create or update that fails attempts exactly one failure status write,
\* as its last call, and then raises, also when that write fails; a handler
\* that returns has not failed and has attempted no failure write.
C3_FailurePropagates ==
    invocation.handler \in {"created", "updated"} =>
        /\ invocation.error # NoMsg =>
              /\ invocation.outcome = "raised"
              /\ Count(invocation.calls, FailureWrites) = 1
              /\ invocation.calls[Len(invocation.calls)].op \in FailureWrites
        /\ invocation.outcome = "returned" =>
              /\ invocation.error = NoMsg
              /\ Count(invocation.calls, FailureWrites) = 0

C3_Witness ==
    /\ invocation.handler = "created"
    /\ invocation.error # NoMsg
    /\ invocation.wrote = "failed"
    /\ invocation.outcome = "raised"

\* C4: the delete handler resolves no foundation-model endpoint and looks up no
\* knowledge base; it hands delete_agent an AgentData with empty endpoint,
\* routes and tools, writes no status, and raises only when the backend's
\* delete call fails with a cluster error: a workload, model service or
\* knowledge base that no longer exists is not an error.
C4_DeleteMinimal ==
    [][ invocation'.handler = "deleted" =>
          /\ Ops(invocation'.calls) = <<"delete_agent">>
          /\ invocation'.agent_data.foundation_model_endpoint = <<>>
          /\ invocation'.agent_data.routes = <<>>
          /\ invocation'.agent_data.tools = <<>>
          /\ agent_status' = agent_status
          /\ invocation'.outcome = "returned" \/ invocation'.seen = "n/a"
          /\ invocation'.outcome = "returned" => ~workload'.present ]_vars

C4_Witness ==
    /\ invocation.handler = "deleted"
    /\ invocation.outcome = "returned"
    /\ invocation.seen = "absent"
    /\ kb_crs = {}
    /\ services = <<>>

----------------------------------------------------------------------------
(* Pipeline sources, their servers' responses and the uploader *)

\* Python None where a string is optional
None == "None"

py_truthy(v) == v \notin {None, ""}

PipelineSourceConfig(url, version) == [url |-> url, version |-> version]

Source(name, config) == [name |-> name, config |-> config]

DefaultSource == Source("default", PipelineSourceConfig("u1", None))
ExtraSource == Source("extra", PipelineSourceConfig("u2", "2.0.0"))

\* config.items() of the dict handed to run: the sources in dict order.
ConfigSnapshots ==
    { <<>>, <<DefaultSource>>, <<DefaultSource, ExtraSource>>,
      <<ExtraSource, DefaultSource>> }

\* A pipeline package on disk: its file name, and pipelineInfo.name of its YAML
\* (empty when the file does not parse or has no such field).
Package(name, info_name) == [name |-> name, pipeline_info_name |-> info_name]

IngestPackage == Package(<<"ingest", ".yaml">>, <<"doc-ingest">>)
PlainPackage == Package(<<"pipeline", ".yaml">>, <<>>)

PipelineFileResponse(file_paths, etag, last_modified) ==
    [file_paths |-> file_paths, etag |-> etag, last_modified |-> last_modified]

\* Stands for the None of the pair (False, None).
NoResponse == PipelineFileResponse(<<>>, None, None)

\* What a 200 response can be processed into.  An entity tag is never the
\* empty string; either validator header can be missing.
Responses ==
    { PipelineFileResponse(<<IngestPackage, PlainPackage>>, "E1", "L1"),
      PipelineFileResponse(<<PlainPackage>>, None, "L2"),
      PipelineFileResponse(<<>>, "E2", None) }

HttpStatuses == {200, 204, 304, 500}

\* How one upload_pipeline_version call ends: it returns, it raises the
\* ApiException the uploader catches, or it raises anything else.
UploadOutcomes == {"ok", "ApiException", "Exception"}

_get_request_headers(etag, last_modified) ==
    (IF py_truthy(etag) THEN {<<"If-None-Match", etag>>} ELSE {})
    \cup (IF py_truthy(last_modified) THEN {<<"If-Modified-Since", last_modified>>} ELSE {})

\* PipelineDownloader.get_pipeline_files, given what the server answers and
\* whether the body passes _process_response.
get_pipeline_files(status, response, body_ok) ==
    IF status >= 400 THEN [raised |-> TRUE, is_updated |-> FALSE, response |-> NoResponse]
    ELSE IF status = 304 THEN [raised |-> FALSE, is_updated |-> FALSE, response |-> NoResponse]
    ELSE IF status = 200
         THEN IF body_ok
              THEN [raised |-> FALSE, is_updated |-> TRUE, response |-> response]
              ELSE [raised |-> TRUE, is_updated |-> FALSE, response |-> NoResponse]
    ELSE [raised |-> TRUE, is_updated |-> FALSE, response |-> NoResponse]

\* PipelineUploader.upload: `except ApiException` logs and returns None; any
\* other exception leaves the method.
upload(package_path, version_name, pipeline_name, outcome) ==
    [package_path |-> package_path, version_name |-> version_name,
     pipeline_name |-> pipeline_name,
     result |-> IF outcome = "ok" THEN "version" ELSE None,
     raised |-> outcome \notin {"ok", "ApiException"}]

removesuffix(name, suffix) ==
    IF Len(name) > 0 /\ name[Len(name)] = suffix
    THEN SubSeq(name, 1, Len(name) - 1)
    ELSE name

_upload_pipeline(package_path, version, outcome) ==
    LET default_name == removesuffix(package_path.name, ".yaml")
        pipeline_name == IF package_path.pipeline_info_name # <<>>
                         THEN package_path.pipeline_info_name
                         ELSE default_name
        version_name == pipeline_name \o <<" ", version>>
    IN  upload(package_path.name, version_name, pipeline_name, outcome)

\* `for file_path in response.file_paths:` from the i-th path on; a raising
\* upload ends the loop.
RECURSIVE upload_each(_, _, _, _)
upload_each(file_paths, version, outcomes, i) ==
    IF i > Len(file_paths) THEN <<>>
    ELSE LET u == _upload_pipeline(file_paths[i], version, outcomes[i]) IN
         IF u.raised THEN <<u>>
         ELSE <<u>> \o upload_each(file_paths, version, outcomes, i + 1)

\* self._response_cache[name] = response
cache_set(cache, name, response) ==
    [n \in DOMAIN cache \cup {name} |-> IF n = name THEN response ELSE cache[n]]

\* self._response_cache.get(name) turned into the keyword arguments of the fetch.
fetch_kwargs(cache, name) ==
    IF name \in DOMAIN cache
    THEN [k \in {"etag", "last_modified"} |->
             IF k = "etag" THEN cache[name].etag ELSE cache[name].last_modified]
    ELSE [k \in {} |-> None]

kwarg(kwargs, k) == IF k \in DOMAIN kwargs THEN kwargs[k] ELSE None

\* An update_source that drops its cache entry when the source is unmodified.
update_source_forgetful(cache, name, config, fetch, outcomes) ==
    LET version == IF py_truthy(config.version) THEN config.version ELSE "1.0.0"
        ups == IF fetch.raised \/ ~fetch.is_updated THEN <<>>
               ELSE upload_each(fetch.response.file_paths, version, outcomes, 1)
        raised == fetch.raised \/ (ups # <<>> /\ ups[Len(ups)].raised)
    IN  [uploads |-> ups, raised |-> raised,
         cache |-> IF raised THEN cache
                   ELSE IF fetch.is_updated THEN cache_set(cache, name, fetch.response)
                   ELSE [n \in DOMAIN cache \ {name} |-> cache[n]]]

\* An update_source that stores the response before it uploads the files.
update_source_caches_first(cache, name, config, fetch, outcomes) ==
    LET version == IF py_truthy(config.version) THEN config.version ELSE "1.0.0"
        ups == IF fetch.raised \/ ~fetch.is_updated THEN <<>>
               ELSE upload_each(fetch.response.file_paths, version, outcomes, 1)
        raised == fetch.raised \/ (ups # <<>> /\ ups[Len(ups)].raised)
    IN  [uploads |-> ups, raised |-> raised,
         cache |-> IF ~fetch.raised /\ fetch.is_updated
                   THEN cache_set(cache, name, fetch.response)
                   ELSE cache]

\* PipelineUpdater.update_source from the point where the fetch has ended.
update_source_resume(cache, name, config, fetch, outcomes) ==
    LET version == IF py_truthy(config.version) THEN config.version ELSE "1.0.0"
        ups == IF fetch.raised \/ ~fetch.is_updated THEN <<>>
               ELSE upload_each(fetch.response.file_paths, version, outcomes, 1)
        raised == fetch.raised \/ (ups # <<>> /\ ups[Len(ups)].raised)
    IN  [uploads |-> ups, raised |-> raised,
         cache |-> IF ~raised /\ fetch.is_updated
                   THEN cache_set(cache, name, fetch.response)
                   ELSE cache]

NoRequest ==
    [name |-> "", kwargs |-> [k \in {} |-> None], headers |-> {}, phase |-> "none",
     fetch |-> get_pipeline_files(304, NoResponse, TRUE), uploads |-> <<>>,
     raised |-> FALSE]

NoCycle ==
    [pc |-> "idle", snapshot |-> <<>>, next |-> 1, attempted |-> <<>>,
     logged |-> <<>>, propagated |-> FALSE]

\* A run whose except clause lets the exception go.
run_reraise(c, name, raised) ==
    IF raised
    THEN [c EXCEPT !.pc = "running", !.next = Len(c.snapshot) + 1, !.propagated = TRUE]
    ELSE [c EXCEPT !.pc = "running", !.next = @ + 1]

\* PipelineUpdater.run once update_source has returned or raised:
\* `except Exception` logs, and the loop goes on with the next source.
run_continue(c, name, raised) ==
    [c EXCEPT !.pc = "running", !.next = @ + 1,
              !.logged = IF raised THEN Append(@, name) ELSE @]

----------------------------------------------------------------------------
(* The pipeline synchronisation cycle *)

\* update_pipelines calls updater.run with the current configuration.
RunStart ==
    /\ cycle.pc = "idle"
    /\ \E config \in ConfigSnapshots :
          cycle' = [NoCycle EXCEPT !.pc = "running", !.snapshot = config]
    /\ request' = NoRequest
    /\ UNCHANGED <<_response_cache, inflight, last_modified_fetch, agent_vars, config_vars, downloader_vars, backend_vars, rest_vars>>

\* update_source up to `await downloader.get_pipeline_files(...)`.
FetchStart ==
    /\ cycle.pc = "running"
    /\ cycle.next <= Len(cycle.snapshot)
    /\ LET name == cycle.snapshot[cycle.next].name
           kwargs == fetch_kwargs(_response_cache, name)
       IN  /\ request' = [NoRequest EXCEPT
                             !.name = name, !.kwargs = kwargs, !.phase = "fetching",
                             !.headers = _get_request_headers(kwarg(kwargs, "etag"),
                                                              kwarg(kwargs, "last_modified"))]
           /\ cycle' = [cycle EXCEPT !.pc = "fetching", !.attempted = Append(@, name)]
    /\ inflight' = inflight + 1
    /\ UNCHANGED <<_response_cache, last_modified_fetch, agent_vars, config_vars, downloader_vars, backend_vars, rest_vars>>

\* The fetch ends; update_source uploads and stores the response without
\* another suspension, and run moves on.
FetchDone ==
    /\ cycle.pc = "fetching"
    /\ \E status \in HttpStatuses, response \in Responses, body_ok \in BOOLEAN :
       \E outcomes \in [DOMAIN response.file_paths -> UploadOutcomes] :
          LET source == cycle.snapshot[cycle.next]
              fetch == get_pipeline_files(status, response, body_ok)
              u == update_source_resume(_response_cache, source.name, source.config,
                                        fetch, outcomes)
          IN  /\ _response_cache' = u.cache
              /\ request' = [request EXCEPT !.phase = "done", !.fetch = fetch,
                                            !.uploads = u.uploads, !.raised = u.raised]
              /\ last_modified_fetch' =
                    IF fetch.is_updated
                    THEN cache_set(last_modified_fetch, source.name, fetch.response)
                    ELSE last_modified_fetch
              /\ cycle' = run_continue(cycle, source.name, u.raised)
    /\ inflight' = inflight - 1
    /\ UNCHANGED <<agent_vars, config_vars, downloader_vars, backend_vars, rest_vars>>

\* The loop of run is exhausted; run returns.
RunEnd ==
    /\ cycle.pc = "running"
    /\ cycle.next > Len(cycle.snapshot)
    /\ cycle' = [cycle EXCEPT !.pc = "idle"]
    /\ UNCHANGED <<_response_cache, request, inflight, last_modified_fetch, agent_vars, config_vars, downloader_vars, backend_vars, rest_vars>>

----------------------------------------------------------------------------
(* Claims about the pipeline updater, checked under SpecUpdater *)

\* The step in which the fetch of the current update_source call ends.
FetchEnds == request.phase = "fetching" /\ request'.phase = "done"

SnapshotNames(c) == [i \in DOMAIN c.snapshot |-> c.snapshot[i].name]

SnapshotConfig(c, name) ==
    c.snapshot[CHOOSE i \in DOMAIN c.snapshot : c.snapshot[i].name = name].config

\* The upload calls the updater is to make for a response, one per path.
ExpectedCall(package_path, version) ==
    [package_path |-> package_path.name,
     version_name |-> (IF package_path.pipeline_info_name # <<>>
                       THEN package_path.pipeline_info_name
                       ELSE <<package_path.name[1]>>) \o <<" ", version>>]

CallOf(u) == [package_path |-> u.package_path, version_name |-> u.version_name]

\* C5: when the fetch of a source returns (False, None), the uploader is not
\* invoked for that source in that cycle and no entry of the response cache
\* changes.
C5_NotModifiedNoUpload ==
    [][ FetchEnds /\ ~request'.fetch.raised /\ ~request'.fetch.is_updated =>
            /\ request'.uploads = <<>>
            /\ ~request'.raised
            /\ _response_cache' = _response_cache ]_vars

C5_Witness ==
    /\ request.phase = "done"
    /\ ~request.fetch.raised
    /\ ~request.fetch.is_updated
    /\ request.uploads = <<>>
    /\ request.name \in DOMAIN _response_cache
    /\ _response_cache[request.name].file_paths # <<>>

\* C6: when the fetch of source name returns (True, response), update_source
\* calls the uploader exactly once for each path of response.file_paths, in
\* order, with the label "<pipeline name> <config.version or 1.0.0>", and then
\* sets the cache entry of name to that response, leaving the entries of all
\* other sources as they were.
C6_UploadAllThenCache ==
    [][ FetchEnds /\ request'.fetch.is_updated =>
          LET name == request'.name
              response == request'.fetch.response
              version == IF SnapshotConfig(cycle, name).version = None
                         THEN "1.0.0" ELSE SnapshotConfig(cycle, name).version
          IN  /\ Len(request'.uploads) = Len(response.file_paths)
              /\ \A i \in DOMAIN request'.uploads :
                    CallOf(request'.uploads[i]) = ExpectedCall(response.file_paths[i], version)
              /\ name \in DOMAIN _response_cache'
              /\ _response_cache'[name] = response
              /\ \A n \in (DOMAIN _response_cache \cup DOMAIN _response_cache') \ {name} :
                    /\ n \in DOMAIN _response_cache
                    /\ n \in DOMAIN _response_cache'
                    /\ _response_cache'[n] = _response_cache[n] ]_vars

\* C6 holds of every modified fetch whose uploads all return.
C6_WhenUploadsReturn ==
    [][ FetchEnds /\ request'.fetch.is_updated /\ ~request'.raised =>
          LET name == request'.name
              response == request'.fetch.response
              version == IF SnapshotConfig(cycle, name).version = None
                         THEN "1.0.0" ELSE SnapshotConfig(cycle, name).version
          IN  /\ Len(request'.uploads) = Len(response.file_paths)
              /\ \A i \in DOMAIN request'.uploads :
                    CallOf(request'.uploads[i]) = ExpectedCall(response.file_paths[i], version)
              /\ name \in DOMAIN _response_cache'
              /\ _response_cache'[name] = response
              /\ \A n \in (DOMAIN _response_cache \cup DOMAIN _response_cache') \ {name} :
                    /\ n \in DOMAIN _response_cache
                    /\ n \in DOMAIN _response_cache'
                    /\ _response_cache'[n] = _response_cache[n] ]_vars

Validators(r) ==
    [k \in {"etag", "last_modified"} |-> IF k = "etag" THEN r.etag ELSE r.last_modified]

HeaderNames(headers) == {h[1] : h \in headers}

\* The fetch was given the validators of the cache entry, none without an
\* entry, and the request carries If-None-Match iff an etag was given and
\* If-Modified-Since iff a last_modified was given.
ValidatorsOfCache ==
    /\ request.name \in DOMAIN _response_cache =>
          request.kwargs = Validators(_response_cache[request.name])
    /\ request.name \notin DOMAIN _response_cache => DOMAIN request.kwargs = {}
    /\ "If-None-Match" \in HeaderNames(request.headers)
          <=> kwarg(request.kwargs, "etag") # None
    /\ "If-Modified-Since" \in HeaderNames(request.headers)
          <=> kwarg(request.kwargs, "last_modified") # None
    /\ \A h \in request.headers :
          h[2] = kwarg(request.kwargs,
                       IF h[1] = "If-None-Match" THEN "etag" ELSE "last_modified")

\* C7: every update_source(name) passes the downloader exactly the etag and
\* last_modified of the cache entry of name, which are those of the most recent
\* modified fetch of that source, and passes none when there is no entry; the
\* downloader sends If-None-Match iff an etag is supplied and
\* If-Modified-Since iff a last_modified is supplied.
C7_ValidatorsOfLatestFetch ==
    request.phase = "fetching" =>
        /\ ValidatorsOfCache
        /\ request.name \in DOMAIN last_modified_fetch =>
              request.kwargs = Validators(last_modified_fetch[request.name])
        /\ request.name \notin DOMAIN last_modified_fetch => DOMAIN request.kwargs = {}

\* The part of C7 that does not depend on uploads returning.
C7_ValidatorsOfCacheEntry == request.phase = "fetching" => ValidatorsOfCache

\* C8: one run attempts update_source for every source of its snapshot, in the
\* order of the snapshot and with at most one fetch in flight; an exception
\* raised while updating a source is logged, does not leave run, and the later
\* sources are still attempted.
C8_CycleAttemptsAll ==
    /\ inflight \in {0, 1}
    /\ inflight = 1 <=> cycle.pc = "fetching"
    /\ ~cycle.propagated
    /\ cycle.attempted =
          SubSeq(SnapshotNames(cycle), 1,
                 IF cycle.pc = "fetching" THEN cycle.next ELSE cycle.next - 1)
    /\ cycle.pc = "idle" => cycle.attempted = SnapshotNames(cycle)
    /\ request.phase = "done" /\ request.raised =>
          cycle.logged # <<>> /\ cycle.logged[Len(cycle.logged)] = request.name
    /\ \A i \in DOMAIN cycle.logged : \E j \in DOMAIN cycle.attempted :
          cycle.attempted[j] = cycle.logged[i]

C8_Witness ==
    /\ cycle.pc = "idle"
    /\ Len(cycle.snapshot) = 2
    /\ cycle.logged = <<cycle.snapshot[1].name>>
    /\ cycle.attempted = SnapshotNames(cycle)
    /\ request.name = cycle.snapshot[2].name
    /\ request.phase = "done"
    /\ ~request.raised

----------------------------------------------------------------------------
(* The pipeline configuration: ConfigMap entries and Secrets *)

CONFIG_NAMES == {"default", "second"}
SECRET_NAMES == {"test-secret"}

\* A ConfigMap value is text: a JSON object written as its pairs between
\* braces, or something that is not JSON.
Json(pairs) == <<"{">> \o pairs \o <<"}">>

InvalidConfig == <<"invalid-config">>
BadAuthEntry == Json(<< <<"url", "u1">>, <<"authType", "oauth">> >>)
PlainEntry == Json(<< <<"url", "u1">> >>)
VersionedEntry == Json(<< <<"url", "u2">>, <<"version", "2.0.0">> >>)
BearerNoSecretEntry == Json(<< <<"url", "u1">>, <<"authType", "bearer">> >>)
BearerEntry ==
    Json(<< <<"url", "u1">>, <<"authType", "bearer">>,
            <<"authSecretName", "test-secret">>, <<"authSecretKey", "test-key">> >>)

BasicEntry ==
    Json(<< <<"url", "u2">>, <<"authType", "basic">>,
            <<"authSecretName", "test-secret">>, <<"authSecretKey", "test-key">> >>)

ConfigStrings ==
    { InvalidConfig, BadAuthEntry, PlainEntry, VersionedEntry,
      BearerNoSecretEntry, BearerEntry, BasicEntry }

\* What reading the ConfigMap gives: its data, 404, or another API error.
ConfigMapReads ==
    { [status |-> "ok", data |-> d] :
         d \in UNION { [ns -> ConfigStrings] : ns \in SUBSET CONFIG_NAMES } }
    \cup { [status |-> "404", data |-> <<>>], [status |-> "error", data |-> <<>>] }

\* A Secret value as the API returns it: the base64 of a text, or a value for
\* which b64decode(value).decode() raises (not base64, or bytes that are not
\* UTF-8, as the "invalid-value" of test_config_invalid).
B64(text) == <<"base64", text>>
B64Binary == <<"base64-bytes">>

V1Secret(data) == [status |-> "ok", has_data |-> TRUE, data |-> data]

\* What reading a Secret gives: an API error, a Secret whose data is None, or
\* a Secret with data.
SecretReads ==
    { [status |-> "ApiException", has_data |-> FALSE, data |-> <<>>],
      [status |-> "ok", has_data |-> FALSE, data |-> <<>>],
      V1Secret([k \in {"test-key"} |-> B64("test-value")]),
      V1Secret([k \in {"test-key"} |-> B64("")]),
      V1Secret([k \in {"other-key"} |-> B64("test-value")]),
      V1Secret([k \in {"test-key", "cert"} |->
                   IF k = "cert" THEN B64Binary ELSE B64("test-value")]) }

SecretStores == [SECRET_NAMES -> SecretReads]

AUTH_TYPES == {"none", "basic", "bearer"}

\* A _load_config that answers every cluster error as it answers 404.
_load_config_errors_as_empty(read) ==
    IF read.status = "ok" THEN [raised |-> FALSE, loaded_config |-> read.data]
    ELSE [raised |-> FALSE, loaded_config |-> <<>>]

\* PipelineConfigLoader._load_config: 404 gives {}; after any other
\* ApiException `configmap` is unbound at the return, which raises.
_load_config(read) ==
    IF read.status = "404" THEN [raised |-> FALSE, loaded_config |-> <<>>]
    ELSE IF read.status = "ok" THEN [raised |-> FALSE, loaded_config |-> read.data]
    ELSE [raised |-> TRUE, loaded_config |-> <<>>]

\* json.loads of a ConfigMap value
json_loads(config_str) ==
    IF Len(config_str) >= 2 /\ config_str[1] = "{" /\ config_str[Len(config_str)] = "}"
    THEN LET pairs == SubSeq(config_str, 2, Len(config_str) - 1) IN
         [raised |-> FALSE,
          value |-> [k \in {pairs[i][1] : i \in DOMAIN pairs} |->
                        pairs[CHOOSE i \in DOMAIN pairs : pairs[i][1] = k][2]]]
    ELSE [raised |-> TRUE, value |-> <<>>]

field(config_dict, key, default) ==
    IF key \in DOMAIN config_dict THEN config_dict[key] ELSE default

StoredPipelineSourceConfig(url, version, auth_type, auth_secret_name, auth_secret_key) ==
    [url |-> url, version |-> version, auth_type |-> auth_type,
     auth_secret_name |-> auth_secret_name, auth_secret_key |-> auth_secret_key]

NoStoredConfig == StoredPipelineSourceConfig("", None, "none", None, None)

\* StoredPipelineSourceConfig.from_dict: url is required and authType must
\* name a PipelineSourceAuth.
from_dict(config_dict) ==
    IF "url" \notin DOMAIN config_dict
       \/ field(config_dict, "authType", "none") \notin AUTH_TYPES
    THEN [raised |-> TRUE, value |-> NoStoredConfig]
    ELSE [raised |-> FALSE,
          value |-> StoredPipelineSourceConfig(
                        config_dict["url"], field(config_dict, "version", None),
                        field(config_dict, "authType", "none"),
                        field(config_dict, "authSecretName", None),
                        field(config_dict, "authSecretKey", None))]

\* The first loop of update_config: the entries that parse and decode.
parse_entries(loaded_config) ==
    LET parsed(n) == json_loads(loaded_config[n])
        valid == {n \in DOMAIN loaded_config :
                     /\ ~parsed(n).raised
                     /\ ~from_dict(parsed(n).value).raised}
    IN  [n \in valid |-> from_dict(parsed(n).value).value]

\* base64.b64decode(value).decode()
b64decode_decode(value) ==
    IF value[1] = "base64" THEN [raised |-> FALSE, text |-> value[2]]
    ELSE [raised |-> TRUE, text |-> ""]

\* PipelineConfigLoader._load_secrets: an ApiException skips the secret; a
\* Secret without data or with a value that does not decode raises.
_load_secrets(secret_names, store) ==
    LET readable == {n \in secret_names : store[n].status = "ok"}
        broken(n) == \/ ~store[n].has_data
                     \/ \E k \in DOMAIN store[n].data :
                           b64decode_decode(store[n].data[k]).raised
    IN  IF \E n \in readable : broken(n)
        THEN [raised |-> TRUE, secrets |-> <<>>]
        ELSE [raised |-> FALSE,
              secrets |-> [n \in readable |->
                              [k \in DOMAIN store[n].data |->
                                  b64decode_decode(store[n].data[k]).text]]]

SourceConfig(url, version, auth_type, auth_token) ==
    [url |-> url, version |-> version, auth_type |-> auth_type, auth_token |-> auth_token]

secret_names_of(updated_configs) ==
    { updated_configs[n].auth_secret_name :
         n \in {m \in DOMAIN updated_configs :
                   /\ updated_configs[m].auth_type # "none"
                   /\ py_truthy(updated_configs[m].auth_secret_name)} }

\* An _update_config_items that takes any value the secret holds for the key.
installable_any_value(updated_configs, secrets) ==
    {n \in DOMAIN updated_configs :
        LET c == updated_configs[n] IN
        \/ c.auth_type = "none"
        \/ /\ py_truthy(c.auth_secret_name)
           /\ py_truthy(c.auth_secret_key)
           /\ c.auth_secret_name \in DOMAIN secrets
           /\ c.auth_secret_key \in DOMAIN secrets[c.auth_secret_name]}

\* The entries the second loop of _update_config_items assigns.
installable(updated_configs, secrets) ==
    {n \in DOMAIN updated_configs :
        LET c == updated_configs[n] IN
        \/ c.auth_type = "none"
        \/ /\ py_truthy(c.auth_secret_name)
           /\ py_truthy(c.auth_secret_key)
           /\ c.auth_secret_name \in DOMAIN secrets
           /\ DOMAIN secrets[c.auth_secret_name] # {}
           /\ c.auth_secret_key \in DOMAIN secrets[c.auth_secret_name]
           /\ py_truthy(secrets[c.auth_secret_name][c.auth_secret_key])}

\* An _update_config_items that writes url, version and auth type into the
\* entry a name already has, leaving the token of that entry in place.
_update_config_items_in_place(current, updated_configs, secrets) ==
    LET inst == installable(updated_configs, secrets) IN
    [n \in DOMAIN current \cup inst |->
        IF n \in inst
        THEN LET c == updated_configs[n] IN
             SourceConfig(c.url, c.version, c.auth_type,
                          IF n \in DOMAIN current THEN current[n].auth_token
                          ELSE IF c.auth_type = "none" THEN None
                          ELSE secrets[c.auth_secret_name][c.auth_secret_key])
        ELSE current[n]]

\* PipelineConfigLoader._update_config_items once the secrets are loaded.
_update_config_items(current, updated_configs, secrets) ==
    LET inst == installable(updated_configs, secrets) IN
    [n \in DOMAIN current \cup inst |->
        IF n \in inst
        THEN LET c == updated_configs[n] IN
             SourceConfig(c.url, c.version, c.auth_type,
                          IF c.auth_type = "none" THEN None
                          ELSE secrets[c.auth_secret_name][c.auth_secret_key])
        ELSE current[n]]

\* An eviction that keeps only the entries that parsed.
discarded_names_unparsed(current, loaded_config, updated_configs) ==
    DOMAIN current \ DOMAIN updated_configs

\* discarded_names of update_config
discarded_names(current, loaded_config, updated_configs) ==
    DOMAIN current \ DOMAIN loaded_config

\* An update_config that installs the entries and leaves the eviction undone
\* when it gives up control.
update_config_resume_unevicted(current, loaded_config, updated_configs, store) ==
    LET s == _load_secrets(secret_names_of(updated_configs), store)
        installed == _update_config_items(current, updated_configs, s.secrets)
    IN  IF s.raised THEN [raised |-> TRUE, config |-> current]
        ELSE [raised |-> FALSE, config |-> installed]

\* update_config from the call of _update_config_items to its end.
update_config_resume(current, loaded_config, updated_configs, store) ==
    LET s == _load_secrets(secret_names_of(updated_configs), store)
        installed == _update_config_items(current, updated_configs, s.secrets)
        kept == DOMAIN installed
                   \ discarded_names(installed, loaded_config, updated_configs)
    IN  IF s.raised THEN [raised |-> TRUE, config |-> current]
        ELSE [raised |-> FALSE, config |-> [n \in kept |-> installed[n]]]

NoRefresh ==
    [phase |-> "idle", read |-> "none", loaded_config |-> <<>>,
     updated_configs |-> <<>>, store |-> <<>>, outcome |-> "none"]

----------------------------------------------------------------------------
(* The configuration refresh *)

\* update_config up to `await self._update_config_items(...)`: the ConfigMap
\* is read and its entries are parsed.
RefreshStart ==
    /\ refresh.phase # "secrets"
    /\ \E read \in ConfigMapReads :
          LET l == _load_config(read) IN
          refresh' =
             IF l.raised
             THEN [NoRefresh EXCEPT !.phase = "done", !.read = read.status,
                                    !.outcome = "raised"]
             ELSE [NoRefresh EXCEPT !.phase = "secrets", !.read = read.status,
                                    !.loaded_config = l.loaded_config,
                                    !.updated_configs = parse_entries(l.loaded_config)]
    /\ UNCHANGED <<_current_config, agent_vars, updater_vars, downloader_vars, backend_vars, rest_vars>>

\* The secrets are read; entries are installed and removed keys evicted
\* without another suspension.
RefreshFinish ==
    /\ refresh.phase = "secrets"
    /\ \E store \in SecretStores :
          LET u == update_config_resume(_current_config, refresh.loaded_config,
                                        refresh.updated_configs, store)
          IN  /\ _current_config' = u.config
              /\ refresh' = [refresh EXCEPT
                                !.phase = "done", !.store = store,
                                !.outcome = IF u.raised THEN "raised" ELSE "returned"]
    /\ UNCHANGED <<agent_vars, updater_vars, downloader_vars, backend_vars, rest_vars>>

----------------------------------------------------------------------------
(* Claims about the configuration loader, checked under SpecConfig *)

\* The step in which a refresh that has read the ConfigMap ends.
RefreshEnds == refresh.phase = "secrets" /\ refresh'.phase = "done"

Pairs(config_str) == {config_str[i] : i \in 2..(Len(config_str) - 1)}

IsJsonObject(config_str) == config_str[1] = "{"

\* The entry is not JSON or does not decode into a stored configuration.
Malformed(config_str) ==
    \/ ~IsJsonObject(config_str)
    \/ ~\E p \in Pairs(config_str) : p[1] = "url"
    \/ \E p \in Pairs(config_str) : p[1] = "authType" /\ p[2] \notin AUTH_TYPES

RequiresAuth(config_str) ==
    \E p \in Pairs(config_str) : p[1] = "authType" /\ p[2] \in AUTH_TYPES \ {"none"}

Names(config_str, key) == {p[2] : p \in {q \in Pairs(config_str) : q[1] = key}}

\* The entry requires auth and its secret name or key is not given, its
\* secret cannot be read, or the secret has no such key.
SecretUnresolved(config_str, store) ==
    /\ IsJsonObject(config_str)
    /\ RequiresAuth(config_str)
    /\ \/ Names(config_str, "authSecretName") = {}
       \/ Names(config_str, "authSecretKey") = {}
       \/ \E s \in Names(config_str, "authSecretName") :
             \/ store[s].status = "ApiException"
             \/ /\ store[s].status = "ok"
                /\ store[s].has_data
                /\ \E k \in Names(config_str, "authSecretKey") : k \notin DOMAIN store[s].data

SameEntry(before, after, n) ==
    /\ n \in DOMAIN before <=> n \in DOMAIN after
    /\ n \in DOMAIN before => after[n] = before[n]

\* C9: after every refresh each key of the snapshot is a key of the ConfigMap
\* as just read, a missing ConfigMap counting as empty; so a key removed from
\* the ConfigMap is gone from the snapshot after the next refresh, whatever
\* the validity of its entry or the state of its secret.
C9_SnapshotEviction ==
    [][ RefreshEnds => DOMAIN _current_config' \subseteq DOMAIN refresh.loaded_config ]_vars

\* C9 holds of every refresh that returns.
C9_EvictionWhenReturned ==
    [][ RefreshEnds /\ refresh'.outcome = "returned" =>
           DOMAIN _current_config' \subseteq DOMAIN refresh.loaded_config ]_vars

\* C10: when the ConfigMap entry of name n is malformed, or requires auth and
\* its secret name or key is not given, its secret is missing or the key is
\* missing in the secret, the refresh leaves snapshot[n] exactly as it was:
\* the prior entry if there was one, otherwise absent.
C10_SkippedEntryPreserved ==
    [][ RefreshEnds =>
          \A n \in DOMAIN refresh.loaded_config :
             \/ Malformed(refresh.loaded_config[n])
             \/ SecretUnresolved(refresh.loaded_config[n], refresh'.store)
             => SameEntry(_current_config, _current_config', n) ]_vars

C10_Witness ==
    /\ refresh.phase = "done"
    /\ refresh.outcome = "returned"
    /\ "default" \in DOMAIN refresh.loaded_config
    /\ refresh.loaded_config["default"] = InvalidConfig
    /\ "default" \in DOMAIN _current_config
    /\ _current_config["default"].auth_token = "test-value"
    /\ "second" \in DOMAIN refresh.loaded_config
    /\ refresh.loaded_config["second"] = BearerEntry
    /\ refresh.store["test-secret"].status = "ApiException"
    /\ "second" \notin DOMAIN _current_config

\* C11: in every reachable snapshot, an entry whose auth type is basic or
\* bearer has a non-empty auth token, and an entry whose auth type is none
\* carries no token.
C11_AuthEntriesHaveToken ==
    \A n \in DOMAIN _current_config :
       LET c == _current_config[n] IN
       /\ c.auth_type \in AUTH_TYPES
       /\ c.auth_type # "none" => c.auth_token \notin {None, ""}
       /\ c.auth_type = "none" => c.auth_token = None

\* A bearer entry was installed earlier; the secret now holds an empty value
\* for its key, and the entry keeps its token.
C11_Witness ==
    /\ refresh.phase = "done"
    /\ refresh.outcome = "returned"
    /\ "default" \in DOMAIN refresh.loaded_config
    /\ refresh.loaded_config["default"] = BearerEntry
    /\ refresh.store["test-secret"] = V1Secret([k \in {"test-key"} |-> B64("")])
    /\ "default" \in DOMAIN _current_config
    /\ _current_config["default"].auth_type = "bearer"
    /\ _current_config["default"].auth_token = "test-value"
    /\ "second" \in DOMAIN _current_config
    /\ _current_config["second"].auth_type = "basic"
    /\ _current_config["second"].auth_token = "test-value"

\* The snapshot entry a well-formed ConfigMap entry without auth stands for.
PlainConfigOf(config_str) ==
    LET url == CHOOSE u \in Names(config_str, "url") : TRUE
        version == IF Names(config_str, "version") = {} THEN None
                   ELSE CHOOSE v \in Names(config_str, "version") : TRUE
    IN  [url |-> url, version |-> version, auth_type |-> "none", auth_token |-> None]

WellFormedPlain(config_str) == ~Malformed(config_str) /\ ~RequiresAuth(config_str)

\* The secret was read and its content does not decode.
SecretUndecodable(read) ==
    /\ read.status = "ok"
    /\ \/ ~read.has_data
       \/ \E k \in DOMAIN read.data : read.data[k][1] # "base64"

\* What C12 asks of the step that ends a refresh.
IsolatedRefresh ==
    /\ \A n \in DOMAIN refresh.loaded_config :
          WellFormedPlain(refresh.loaded_config[n]) =>
             /\ n \in DOMAIN _current_config'
             /\ _current_config'[n] = PlainConfigOf(refresh.loaded_config[n])
    /\ \A n \in DOMAIN refresh.loaded_config \cap DOMAIN _current_config :
          ~WellFormedPlain(refresh.loaded_config[n]) =>
             n \in DOMAIN _current_config'
    /\ DOMAIN _current_config' \subseteq DOMAIN refresh.loaded_config

\* C12: within one refresh, a secret that is missing, unreadable, lacks the
\* key or holds a value that does not decode affects only the entries that
\* reference it: every other well-formed entry of the ConfigMap is installed,
\* entries already in the snapshot whose key is still in the ConfigMap are
\* kept, and keys removed from the ConfigMap are evicted.
C12_SecretFailureIsolated == [][ RefreshEnds => IsolatedRefresh ]_vars

\* C12 holds of every refresh whose secrets decode or cannot be read.
C12_IsolatedWhenSecretsDecode ==
    [][ RefreshEnds /\ (\A s \in SECRET_NAMES : ~SecretUndecodable(refresh'.store[s]))
           => IsolatedRefresh ]_vars

----------------------------------------------------------------------------
(* The pipeline downloader: HTTP responses, paths and files *)

\* PipelineDownloadConfig.max_size, scaled down; bodies are counted in units.
MAX_SIZE == 2

\* A path or file name is the sequence of its components, each a sequence of
\* tokens; a leading empty component makes it absolute, as in "/abs.yaml".
Root == <<>>
Dir(d) == <<d>>
File(stem, suffix) == <<stem, suffix>>

LOCAL_PATH == <<Root, Dir("local")>>

DefaultFilename == <<File("pipeline", ".yaml")>>
NoFilename == <<>>

\* Content-Disposition file names a server can send.
Filenames ==
    { NoFilename,
      <<File("p", ".yaml")>>,
      <<File("notes", ".txt")>>,
      <<Dir(".."), File("evil", ".yaml")>>,
      <<Root, File("abs", ".yaml")>> }

\* Member names of a zip archive, in archive order.
MemberLists ==
    { <<>>,
      << <<File("good", ".yaml")>>, <<Dir(".."), File("evil", ".yaml")>>,
         <<Root, File("abs", ".yaml")>>, <<File("other", ".py")>> >>,
      << <<Dir("sub"), File("deep", ".yaml")>>, <<File("a", ".yaml")>>,
         <<<<"a", "..", "b", ".yaml">>>> >> }

\* The Content-Length header: absent, not a number, or a number.
ContentLength(present, numeric, value) ==
    [present |-> present, numeric |-> numeric, value |-> value]

ContentLengths ==
    { ContentLength(FALSE, FALSE, 0), ContentLength(TRUE, FALSE, 0),
      ContentLength(TRUE, TRUE, 1), ContentLength(TRUE, TRUE, MAX_SIZE + 1) }

\* Bodies as the sizes of the chunks iter_chunked yields.
Bodies == { <<>>, <<1>>, <<MAX_SIZE>>, <<1, MAX_SIZE>>, <<MAX_SIZE + 1>> }

ZipType == <<"application/", "zip">>
YamlType == <<"text/", "yaml">>

ClientResponse(status, content_type, content_length, chunks, members, filename, etag) ==
    [status |-> status, content_type |-> content_type,
     content_length |-> content_length, chunks |-> chunks, members |-> members,
     filename |-> filename, etag |-> etag, last_modified |-> "L1"]

Statuses == {200, 204, 300, 304, 404, 500}

\* What session.get can hand to get_pipeline_files.
ClientResponses ==
    { ClientResponse(st, YamlType, ContentLength(FALSE, FALSE, 0), <<>>, <<>>,
                     NoFilename, None) : st \in Statuses \ {200} }
    \cup { ClientResponse(200, ZipType, cl, b, ms, NoFilename, e) :
              cl \in ContentLengths, b \in Bodies, ms \in MemberLists, e \in {None, "E1"} }
    \cup { ClientResponse(200, YamlType, cl, b, <<>>, f, e) :
              cl \in ContentLengths, b \in Bodies, f \in Filenames, e \in {None, "E1"} }

\* str.startswith("/"), `".." in name`, str.endswith(suffix) on a name
startswith_slash(name) == name # <<>> /\ name[1] = Root

contains_dotdot(name) == \E i \in DOMAIN name : in_str("..", name[i])

endswith(name, suffix) ==
    /\ name # <<>>
    /\ name[Len(name)] # <<>>
    /\ name[Len(name)][Len(name[Len(name)])] = suffix

\* pathlib: path_prefix / name; an absolute name replaces the prefix.
join(path_prefix, name) == IF startswith_slash(name) THEN name ELSE path_prefix \o name

\* The file a path leads to once its ".." components are followed.
RECURSIVE resolve_from(_, _)
resolve_from(done, rest) ==
    IF rest = <<>> THEN done
    ELSE IF Head(rest) = Dir("..")
         THEN resolve_from(IF Len(done) > 1 THEN SubSeq(done, 1, Len(done) - 1) ELSE done,
                           Tail(rest))
         ELSE resolve_from(Append(done, Head(rest)), Tail(rest))

resolve(path) == resolve_from(<<>>, path)

\* PipelineDownloader._verify_content_length
_verify_content_length(content_length, max_size) ==
    [raised |-> /\ content_length.present
                /\ content_length.numeric
                /\ content_length.value > max_size]

\* The chunk loop of _process_response from read_total on: TRUE when a chunk
\* takes the total over max_size.
RECURSIVE size_exceeded(_, _, _)
size_exceeded(chunks, read_total, max_size) ==
    IF chunks = <<>> THEN FALSE
    ELSE IF read_total + Head(chunks) > max_size THEN TRUE
    ELSE size_exceeded(Tail(chunks), read_total + Head(chunks), max_size)

\* A chunk loop that writes the chunk before it compares the total.
RECURSIVE written_totals_unchecked(_, _, _)
written_totals_unchecked(chunks, read_total, max_size) ==
    IF chunks = <<>> THEN <<>>
    ELSE <<read_total + Head(chunks)>>
         \o (IF read_total + Head(chunks) > max_size THEN <<>>
             ELSE written_totals_unchecked(Tail(chunks), read_total + Head(chunks),
                                           max_size))

\* The chunk loop of _process_response from read_total on: the number of
\* bytes in the output file after each file.write(chunk) it reaches.
RECURSIVE written_totals(_, _, _)
written_totals(chunks, read_total, max_size) ==
    IF chunks = <<>> THEN <<>>
    ELSE IF read_total + Head(chunks) > max_size THEN <<>>
    ELSE <<read_total + Head(chunks)>>
         \o written_totals(Tail(chunks), read_total + Head(chunks), max_size)

\* The members _extract_files hands to extractall.
valid_names(namelist) ==
    SelectSeq(namelist,
              LAMBDA name : /\ ~(startswith_slash(name) \/ contains_dotdot(name))
                            /\ endswith(name, ".yaml"))

\* _extract_files: ZipFile(buffer) reads the buffer, and raises BadZipFile when
\* it cannot.
_extract_files(path_prefix, buffer) ==
    IF ~buffer.readable
    THEN [raised |-> TRUE, names |-> <<>>, written |-> {}]
    ELSE LET names == valid_names(buffer.members) IN
         [raised |-> FALSE,
          names |-> [i \in DOMAIN names |-> join(path_prefix, names[i])],
          written |-> {resolve(join(path_prefix, names[i])) : i \in DOMAIN names}]

\* tempfile.TemporaryFile(mode) holding the body of a zip response
TemporaryFile(mode, members) ==
    [readable |-> mode \in {"w+b", "r+b", "rb"}, members |-> members]

Outcome(error, status_code, is_updated, response, files, written) ==
    [error |-> error, status_code |-> status_code, is_updated |-> is_updated,
     response |-> response, disk |-> files, written |-> written]

\* PipelineDownloader._process_response; files are the files that exist.
_process_response(response, path_prefix, files) ==
    LET is_zip == endswith(<<response.content_type>>, "zip")
        file_path == join(path_prefix,
                          IF response.filename # NoFilename THEN response.filename
                          ELSE DefaultFilename)
        opened == IF is_zip THEN {} ELSE {resolve(file_path)}
        buffer == TemporaryFile("wb", response.members)
        x == _extract_files(path_prefix, buffer)
    IN  IF _verify_content_length(response.content_length, MAX_SIZE).raised
        THEN Outcome("SizeExceededException", 0, FALSE, NoResponse, files, {})
        ELSE IF size_exceeded(response.chunks, 0, MAX_SIZE)
        THEN Outcome("SizeExceededException", 0, FALSE, NoResponse,
                     files \cup opened, opened)
        ELSE IF is_zip
        THEN IF x.raised
             THEN Outcome("BadZipFile", 0, FALSE, NoResponse, files, {})
             ELSE Outcome("none", 0, TRUE,
                          PipelineFileResponse(x.names, response.etag, response.last_modified),
                          files \cup x.written, x.written)
        ELSE Outcome("none", 0, TRUE,
                     PipelineFileResponse(<<file_path>>, response.etag, response.last_modified),
                     files \cup opened, opened)

\* PipelineDownloader.get_pipeline_files with an open session: what it
\* returns or raises for a response, and the files that exist afterwards.
fetch(name, response, files) ==
    IF response.status >= 400
    THEN Outcome("ClientResponseError", response.status, FALSE, NoResponse, files, {})
    ELSE IF response.status = 304
    THEN Outcome("none", 0, FALSE, NoResponse, files, {})
    ELSE IF response.status = 200
    THEN _process_response(response, Append(LOCAL_PATH, Dir(name)), files)
    ELSE Outcome("UnexpectedResponseException", response.status, FALSE, NoResponse,
                 files, {})

NoDownload ==
    [name |-> "", response |-> ClientResponse(304, YamlType, ContentLength(FALSE, FALSE, 0),
                                               <<>>, <<>>, NoFilename, None),
     outcome |-> Outcome("none", 0, FALSE, NoResponse, {}, {}), calls |-> 0]

----------------------------------------------------------------------------
(* Downloads *)

\* One get_pipeline_files call for a source, against whatever the server sends.
Download ==
    \E name \in {"default"}, response \in ClientResponses :
       LET o == fetch(name, response, disk) IN
       /\ disk' = o.disk
       /\ download' = [name |-> name, response |-> response, outcome |-> o, calls |-> 1]
       /\ UNCHANGED <<agent_vars, updater_vars, config_vars, backend_vars, rest_vars>>

----------------------------------------------------------------------------
(* Downloader claims *)

\* A get_pipeline_files call has ended in this state.
Fetched == download.calls = 1

IsZip(response) == endswith(<<response.content_type>>, "zip")

RECURSIVE body_size(_)
body_size(chunks) == IF chunks = <<>> THEN 0 ELSE Head(chunks) + body_size(Tail(chunks))

\* Neither the announced nor the actual size of the body is over max_size.
WithinMaxSize(response) ==
    /\ body_size(response.chunks) <= MAX_SIZE
    /\ ~(/\ response.content_length.present
         /\ response.content_length.numeric
         /\ response.content_length.value > MAX_SIZE)

Returned(is_updated) ==
    /\ download.outcome.error = "none"
    /\ download.outcome.is_updated = is_updated

Raised(error) ==
    /\ download.outcome.error = error
    /\ download.outcome.response = NoResponse

StatusDispatch(responses) ==
    Fetched /\ download.response \in responses =>
       LET r == download.response
           o == download.outcome
       IN  /\ r.status = 304 =>
                Returned(FALSE) /\ o.response = NoResponse /\ o.written = {}
           /\ r.status = 200 /\ WithinMaxSize(r) =>
                /\ Returned(TRUE)
                /\ o.response.etag = r.etag
                /\ o.response.last_modified = r.last_modified
           /\ r.status >= 400 =>
                Raised("ClientResponseError") /\ o.status_code = r.status
           /\ r.status \notin {200, 304} /\ r.status < 400 =>
                Raised("UnexpectedResponseException") /\ o.status_code = r.status

\* C13: every response status has exactly one outcome: 304 returns
\* (false, absent) and writes no file, 200 returns (true, response) when the
\* body is within the size bound, 4xx and 5xx raise the HTTP error, and every
\* other status raises UnexpectedResponseException carrying that status.
C13_StatusDispatch == StatusDispatch(ClientResponses)

\* The same dispatch for the responses that are not zip archives.
C13_DispatchSingleFile == StatusDispatch({r \in ClientResponses : ~IsZip(r)})

\* C14: a 200 response whose body is larger than max_size, announced by
\* Content-Length or not, raises SizeExceededException, returns no
\* PipelineFileResponse and leaves no file written by the fetch.
C14_SizeBound ==
    Fetched /\ download.response.status = 200
            /\ body_size(download.response.chunks) > MAX_SIZE =>
       /\ Raised("SizeExceededException")
       /\ download.outcome.written = {}

\* The oversized body is refused in every case, and nothing is left behind
\* when the body was headed for the temporary file of a zip response or was
\* announced by Content-Length.
C14_RefusedAndDiscardedWhenBuffered ==
    Fetched /\ download.response.status = 200
            /\ body_size(download.response.chunks) > MAX_SIZE =>
       /\ Raised("SizeExceededException")
       /\ \/ IsZip(download.response)
          \/ _verify_content_length(download.response.content_length, MAX_SIZE).raised
          => download.outcome.written = {}

\* The per-name directory of the fetched source, <local_path>/<name>.
SourceDir == Append(LOCAL_PATH, Dir(download.name))

\* A member name the archive rule lets through.
SafeMember(name) ==
    /\ ~startswith_slash(name)
    /\ \A i \in DOMAIN name : ".." \notin {name[i][j] : j \in DOMAIN name[i]}
    /\ name # <<>>
    /\ name[Len(name)][Len(name[Len(name)])] = ".yaml"

SafeMembers(members) == SelectSeq(members, SafeMember)

\* The file lies at or below the directory.
Below(path, dir) ==
    /\ Len(path) > Len(dir)
    /\ SubSeq(path, 1, Len(dir)) = dir
    /\ \A i \in DOMAIN path : path[i] # Dir("..")

\* C15: for a zip response within the size bound, the files written and the
\* returned file_paths are exactly the members that do not start with "/",
\* hold no ".." and end in ".yaml", in archive order, under the per-name
\* directory; no other member is written.
C15_ArchiveSafety ==
    Fetched /\ download.response.status = 200 /\ IsZip(download.response)
            /\ WithinMaxSize(download.response) =>
       LET kept == SafeMembers(download.response.members)
           paths == [i \in DOMAIN kept |-> SourceDir \o kept[i]]
       IN  /\ Returned(TRUE)
           /\ download.outcome.response.file_paths = paths
           /\ download.outcome.written = {paths[i] : i \in DOMAIN paths}

\* What extraction does with a buffer the archive reader can read: the
\* extracted and returned files are the safe members, in archive order.
C15_FilterOfReadableBuffer ==
    \A members \in MemberLists :
       LET kept == SafeMembers(members)
           paths == [i \in DOMAIN kept |-> SourceDir \o kept[i]]
           x == _extract_files(SourceDir, TemporaryFile("w+b", members))
       IN  /\ ~x.raised
           /\ x.names = paths
           /\ x.written = {paths[i] : i \in DOMAIN paths}

\* No zip response is ever unpacked: the fetch of one either refuses the size
\* or fails to read the archive, and writes nothing.
C15_ZipNeverUnpacked ==
    Fetched /\ download.response.status = 200 /\ IsZip(download.response) =>
       /\ download.outcome.error \in {"SizeExceededException", "BadZipFile"}
       /\ download.outcome.written = {}

PathsContained ==
    LET o == download.outcome IN
    /\ \A i \in DOMAIN o.response.file_paths :
          /\ endswith(o.response.file_paths[i], ".yaml")
          /\ Below(resolve(o.response.file_paths[i]), SourceDir)
          /\ Below(o.response.file_paths[i], SourceDir)
    /\ \A w \in o.written : Below(w, SourceDir)

\* C16: every path in the file_paths of a returned PipelineFileResponse, for a
\* zip and for a single-file response alike, names a file ending in .yaml at
\* or below <local_path>/<name>/, and no written path leaves that directory.
C16_PathsUnderSourceDir == Fetched /\ Returned(TRUE) => PathsContained

\* The same containment for a single file the response does not name, which
\* is stored as pipeline.yaml.
C16_DefaultNamedFile ==
    Fetched /\ Returned(TRUE) /\ download.response.filename = NoFilename =>
       /\ PathsContained
       /\ download.outcome.response.file_paths = <<SourceDir \o DefaultFilename>>

----------------------------------------------------------------------------
(* The two deployment backends behind AgentHandler.agent_service *)

BACKENDS == {"ArgoCDDeployer", "K8sDeployer"}

CalledProcessError(cmd) == <<"CalledProcessError">>

NoManifests == [exists |-> FALSE, data |-> NoAgentData]

\* The points of a backend call that can fail for a reason outside the
\* program: a cluster API error other than 404 or 409, a failing subprocess.
BackendFaults ==
    { "none", "create_agent", "update_agent", "delete_agent", "get_deployment_status",
      "template_agent_chart", "_apply_manifest_dir", "_delete_manifest_dir" }

\* The AgentData a handler can hand to the backend.
BackendAgentDatas ==
    { create_agent_data(NAMESPACE, NAME, agent, KB_NAMES,
                        <<Service("llama-svc", "models", Llama)>>, "none").data :
         agent \in { AgentSpec(Llama, <<>>),
                     AgentSpec(Llama, <<Tool("function", "calc"),
                                        Tool("knowledgeBase", "my-kb")>>) } }
    \cup { minimal_agent_data(NAMESPACE, NAME, AgentSpec(Llama, <<>>)) }

\* utils/helm.py template_agent_chart: helm template into /tmp/agents/<name>
template_agent_chart(agent_data, dir, fault) ==
    IF fault = "template_agent_chart"
    THEN [err |-> CalledProcessError("helm"), manifests |-> dir]
    ELSE [err |-> NoMsg, manifests |-> [exists |-> TRUE, data |-> agent_data]]

\* kubectl apply of the templated manifests: creates or updates the workload.
_apply_manifest_dir(dir, wl, fault) ==
    IF fault = "_apply_manifest_dir"
    THEN [err |-> CalledProcessError("kubectl apply"), workload |-> wl]
    ELSE [err |-> NoMsg,
          workload |-> [present |-> TRUE,
                        status |-> IF wl.present THEN wl.status ELSE "empty",
                        data |-> dir.data]]

\* kubectl delete --ignore-not-found of the templated manifests
_delete_manifest_dir(dir, wl, fault) ==
    IF fault = "_delete_manifest_dir"
    THEN [err |-> CalledProcessError("kubectl delete"), workload |-> wl]
    ELSE [err |-> NoMsg, workload |-> Absent]

K8sDeployer_create_agent(agent_data, wl, dir, fault) ==
    LET t == template_agent_chart(agent_data, dir, fault)
        a == _apply_manifest_dir(t.manifests, wl, fault)
    IN  IF t.err # NoMsg
        THEN [err |-> t.err, workload |-> wl, manifests |-> t.manifests, id |-> <<>>,
              status |-> "n/a"]
        ELSE IF a.err # NoMsg
        THEN [err |-> a.err, workload |-> wl, manifests |-> t.manifests, id |-> <<>>,
              status |-> "n/a"]
        ELSE [err |-> NoMsg, workload |-> a.workload, manifests |-> t.manifests,
              id |-> <<agent_data.name>>, status |-> "n/a"]

\* kubectl apply handles both create and update.
K8sDeployer_update_agent(agent_data, wl, dir, fault) ==
    K8sDeployer_create_agent(agent_data, wl, dir, fault)

\* A delete that templates the chart whether or not the directory exists.
K8sDeployer_delete_agent_retemplating(agent_data, wl, dir, fault) ==
    LET t == template_agent_chart(agent_data, dir, fault)
        d == _delete_manifest_dir(t.manifests, wl, fault)
    IN  IF t.err # NoMsg
        THEN [err |-> t.err, workload |-> wl, manifests |-> t.manifests, id |-> <<>>,
              status |-> "n/a"]
        ELSE [err |-> d.err, workload |-> d.workload, manifests |-> t.manifests,
              id |-> <<>>, status |-> "n/a"]

\* The manifests are templated first when the directory does not exist.
K8sDeployer_delete_agent(agent_data, wl, dir, fault) ==
    LET t == IF dir.exists THEN [err |-> NoMsg, manifests |-> dir]
             ELSE template_agent_chart(agent_data, dir, fault)
        d == _delete_manifest_dir(t.manifests, wl, fault)
    IN  IF t.err # NoMsg
        THEN [err |-> t.err, workload |-> wl, manifests |-> t.manifests, id |-> <<>>,
              status |-> "n/a"]
        ELSE [err |-> d.err, workload |-> d.workload, manifests |-> t.manifests,
              id |-> <<>>, status |-> "n/a"]

\* read_namespaced_deployment: None for a 404, else status.to_dict(), which
\* has every field of V1DeploymentStatus as a key.
K8sDeployer_get_deployment_status(agent_data, wl, fault) ==
    IF fault = "get_deployment_status"
    THEN [err |-> ApiException("read_namespaced_deployment"), status |-> "none"]
    ELSE [err |-> NoMsg, status |-> IF wl.present THEN "nonempty" ELSE "none"]

WithManifests(r, dir) ==
    [err |-> r.err, workload |-> r.workload, manifests |-> dir, id |-> r.id,
     status |-> "n/a"]

\* AgentHandler.agent_service: PROVIDER picks the backend, and both offer the
\* same four operations.  The result of operation op on the backend b.
agent_service(b, op, agent_data, wl, dir, fault) ==
    IF b = "ArgoCDDeployer"
    THEN CASE op = "create" -> WithManifests(create_agent(agent_data, wl, fault), dir)
           [] op = "update" -> WithManifests(update_agent(agent_data, wl, fault), dir)
           [] op = "delete" ->
                 LET r == delete_agent(agent_data, wl, fault) IN
                 [err |-> r.err, workload |-> r.workload, manifests |-> dir,
                  id |-> <<>>, status |-> "n/a"]
           [] op = "get_deployment_status" ->
                 LET r == get_deployment_status(agent_data, wl, fault) IN
                 [err |-> r.err, workload |-> wl, manifests |-> dir, id |-> <<>>,
                  status |-> r.status]
    ELSE CASE op = "create" -> K8sDeployer_create_agent(agent_data, wl, dir, fault)
           [] op = "update" -> K8sDeployer_update_agent(agent_data, wl, dir, fault)
           [] op = "delete" -> K8sDeployer_delete_agent(agent_data, wl, dir, fault)
           [] op = "get_deployment_status" ->
                 LET r == K8sDeployer_get_deployment_status(agent_data, wl, fault) IN
                 [err |-> r.err, workload |-> wl, manifests |-> dir, id |-> <<>>,
                  status |-> r.status]

NoBackendCall ==
    [op |-> "none", agent_data |-> NoAgentData, fault |-> "none",
     before |-> Absent, dir |-> NoManifests, err |-> NoMsg, id |-> <<>>,
     status |-> "n/a"]

BackendCall(op, agent_data, fault, r, status) ==
    [op |-> op, agent_data |-> agent_data, fault |-> fault,
     before |-> backing, dir |-> manifests, err |-> r.err, id |-> r.id,
     status |-> status]

----------------------------------------------------------------------------
(* Backend calls *)

Create ==
    \E agent_data \in BackendAgentDatas, fault \in BackendFaults :
       LET r == agent_service(deployer, "create", agent_data, backing, manifests, fault) IN
       /\ backing' = r.workload
       /\ manifests' = r.manifests
       /\ backend_call' = BackendCall("create", agent_data, fault, r, "n/a")
       /\ UNCHANGED <<deployer, agent_vars, updater_vars, config_vars, downloader_vars, rest_vars>>

Update ==
    \E agent_data \in BackendAgentDatas, fault \in BackendFaults :
       LET r == agent_service(deployer, "update", agent_data, backing, manifests, fault) IN
       /\ backing' = r.workload
       /\ manifests' = r.manifests
       /\ backend_call' = BackendCall("update", agent_data, fault, r, "n/a")
       /\ UNCHANGED <<deployer, agent_vars, updater_vars, config_vars, downloader_vars, rest_vars>>

Delete ==
    \E agent_data \in BackendAgentDatas, fault \in BackendFaults :
       LET r == agent_service(deployer, "delete", agent_data, backing, manifests, fault) IN
       /\ backing' = r.workload
       /\ manifests' = r.manifests
       /\ backend_call' = BackendCall("delete", agent_data, fault, r, "n/a")
       /\ UNCHANGED <<deployer, agent_vars, updater_vars, config_vars, downloader_vars, rest_vars>>

GetStatus ==
    \E agent_data \in BackendAgentDatas, fault \in BackendFaults :
       LET r == agent_service(deployer, "get_deployment_status", agent_data, backing,
                                manifests, fault) IN
       /\ backend_call' = BackendCall("get_deployment_status", agent_data, fault, r, r.status)
       /\ UNCHANGED <<deployer, backing, manifests, agent_vars, updater_vars,
                      config_vars, downloader_vars, rest_vars>>

\* The cluster's controller reports on the workload, or the workload is
\* removed behind the operator's back.
BackingChange ==
    /\ backing.present
    /\ \/ backing.status = "empty" /\ backing' = [backing EXCEPT !.status = "nonempty"]
       \/ backing' = Absent
    /\ backend_call' = NoBackendCall
    /\ UNCHANGED <<deployer, manifests, agent_vars, updater_vars, config_vars,
                   downloader_vars, rest_vars>>

\* /tmp/agents lives in the operator's container: a restart of the pod
\* empties it, while the workloads stay in the cluster.
ManifestsLost ==
    /\ manifests.exists
    /\ manifests' = NoManifests
    /\ backend_call' = NoBackendCall
    /\ UNCHANGED <<deployer, backing, agent_vars, updater_vars, config_vars,
                   downloader_vars, rest_vars>>

----------------------------------------------------------------------------
(* Backend claims *)

\* The backend call that ended in this state.
Called(op) == backend_call.op = op

\* What update would have done in the place of the call.
UpdateInstead ==
    agent_service(deployer, "update", backend_call.agent_data, backend_call.before,
                  backend_call.dir, backend_call.fault)

Matches(wl, agent_data) == wl.present /\ wl.data = agent_data

\* C17: on either backend, create on a workload that exists does what update
\* would do: without a cluster failure it does not fail, leaves the workload
\* matching agent_data and returns the id update returns; a create error
\* other than the conflict is raised.
C17_CreateOnExistingIsUpdate ==
    Called("create") /\ backend_call.before.present =>
       /\ backend_call.fault # "create_agent" =>
             /\ backend_call.err = UpdateInstead.err
             /\ backend_call.id = UpdateInstead.id
             /\ backing = UpdateInstead.workload
       /\ backend_call.fault = "none" =>
             /\ backend_call.err = NoMsg
             /\ Matches(backing, backend_call.agent_data)
             /\ backend_call.id # <<>>
       /\ deployer = "ArgoCDDeployer" /\ backend_call.fault = "create_agent" =>
             /\ backend_call.err = ApiException("create_custom_object")
             /\ backing = backend_call.before

C17_Witness ==
    /\ deployer = "ArgoCDDeployer"
    /\ Called("create")
    /\ backend_call.fault = "none"
    /\ backend_call.before.present
    /\ backend_call.before.data # backend_call.agent_data
    /\ backend_call.before.status = "nonempty"
    /\ backend_call.err = NoMsg
    /\ backend_call.id = <<"agent-", NAME>>
    /\ backing = [present |-> TRUE, status |-> "nonempty", data |-> backend_call.agent_data]

\* C18: on either backend and for every prior state of the workload, present
\* with any content or absent, update brings the workload to match agent_data
\* and returns its deployment id.
C18_UpdateFromAnyState ==
    Called("update") /\ backend_call.fault = "none" =>
       /\ backend_call.err = NoMsg
       /\ Matches(backing, backend_call.agent_data)
       /\ backend_call.id # <<>>

\* The same for the prior states in which the update is not a patch of an
\* absent Application.
C18_UpdateOfPresentOrApplied ==
    /\ Called("update") /\ backend_call.fault = "none"
    /\ deployer = "K8sDeployer" \/ backend_call.before.present
    => /\ backend_call.err = NoMsg
       /\ Matches(backing, backend_call.agent_data)
       /\ backend_call.id =
             IF deployer = "K8sDeployer" THEN <<NAME>> ELSE <<"agent-", NAME>>

\* A second delete right after the call, with the cluster answering.
DeleteAgain ==
    agent_service(deployer, "delete", backend_call.agent_data, backing, manifests, "none")

----------------------------------------------------------------------------
(* The knowledge-base operator process (ml_operator/main.py) *)

OBJECTS == {"kb1", "kb2"}

EventNamespaces == { <<"team-a">>, <<"other">> }

\* os.getenv("WATCH_NAMESPACES"): unset, or a string
Env(is_set, value) == [is_set |-> is_set, value |-> value]

WatchEnvs ==
    { Env(FALSE, <<>>), Env(TRUE, <<>>), Env(TRUE, <<"team-a">>),
      Env(TRUE, <<"team-a", ",", "team-b">>) }

\* str.split(","): the pieces between the commas, the empty ones included.
RECURSIVE split(_, _)
split(text, piece) ==
    IF text = <<>> THEN <<piece>>
    ELSE IF Head(text) = "," THEN <<piece>> \o split(Tail(text), <<>>)
    ELSE split(Tail(text), Append(piece, Head(text)))

\* startup_fn: namespace_arg.split(",") if namespace_arg else []
watch_namespaces(namespace_arg) ==
    IF namespace_arg.is_set /\ namespace_arg.value # <<>>
    THEN LET namespaces == split(namespace_arg.value, <<>>) IN
         {namespaces[i] : i \in DOMAIN namespaces}
    ELSE {}

matches_any_namespace(namespace, watched) == TRUE

matches_namespaces(namespace, watched) ==
    IF watched = {} THEN TRUE ELSE namespace \in watched

\* What the kfp client answers to run_pipeline: a run id, or an error.
RunResults == {"r1", "r2", "ValueError"}

NoHandler ==
    [pending |-> "none", namespace |-> <<>>, pc |-> "idle", kind |-> "none",
     calls |-> <<>>, run_id |-> "none", outcome |-> "none"]

\* KnowledgeBaseHandler.created / updated / deleted up to the point where the
\* kopf handler has the run id: _start_pipeline calls run_pipeline and
\* re-raises its error; deleted only logs.
start_of(kind, run_result) ==
    IF kind = "delete" THEN [calls |-> <<>>, raised |-> FALSE, run_id |-> "none"]
    ELSE [calls |-> <<Call("run_pipeline", kind)>>,
          raised |-> run_result = "ValueError",
          run_id |-> IF run_result = "ValueError" THEN "none" ELSE run_result]

wait_any_run(kind, run_id) == Call("wait_for_pipeline_completion", "r1")

\* The kopf handlers created / updated: wait_for_completion(namespace, name, run_id)
wait_of(kind, run_id) == Call("wait_for_pipeline_completion", run_id)

\* The methods PipelineDownloader defines for `with`.
PipelineDownloaderProtocol == {"__enter__", "__exit__"}

\* `async with obj`: needs __aenter__ and __aexit__, else TypeError.
async_with(protocol) ==
    IF {"__aenter__", "__aexit__"} \subseteq protocol THEN "entered" ELSE "TypeError"

NoLoader == [is_set |-> FALSE, refreshing |-> FALSE, refreshed |-> FALSE]

----------------------------------------------------------------------------
(* The operator's coroutines on the event loop.  A coroutine runs only while
   no other one holds the loop's thread inside a call that does not await. *)

startup_fn ==
    /\ phase = "starting"
    /\ \E namespace_arg \in WatchEnvs :
          WATCHED_NAMESPACES' = watch_namespaces(namespace_arg)
    /\ tasks' = [config_update_task |-> "created", source_update_task |-> "created"]
    /\ phase' = "running"
    /\ UNCHANGED <<config_loader, handlers, blocked, data_vars, sync_vars, extra_vars, agent_vars, updater_vars,
                   config_vars, downloader_vars, backend_vars>>

\* One step of the config-refresh task, from one await to the next.
update_pipeline_config ==
    /\ phase # "starting"
    /\ blocked = "none"
    /\ \/ /\ tasks.config_update_task = "created"
          /\ config_loader' = [config_loader EXCEPT !.is_set = TRUE, !.refreshing = TRUE]
          /\ tasks' = [tasks EXCEPT !.config_update_task = "update_config"]
       \/ /\ tasks.config_update_task = "update_config"
          /\ \E raised \in BOOLEAN :
                config_loader' =
                   [config_loader EXCEPT !.refreshing = FALSE,
                                         !.refreshed = @ \/ ~raised]
          /\ tasks' = [tasks EXCEPT !.config_update_task = "sleep"]
       \/ /\ tasks.config_update_task = "sleep"
          /\ config_loader' = [config_loader EXCEPT !.refreshing = TRUE]
          /\ tasks' = [tasks EXCEPT !.config_update_task = "update_config"]
    /\ UNCHANGED <<phase, WATCHED_NAMESPACES, handlers, blocked, data_vars, sync_vars, extra_vars, agent_vars,
                   updater_vars, config_vars, downloader_vars, backend_vars>>

\* One step of the pipeline-sync task.  It is created after the config task
\* and so takes its first step after that task's first step.
update_pipelines ==
    /\ phase # "starting"
    /\ blocked = "none"
    /\ tasks.config_update_task # "created"
    /\ tasks.source_update_task \in {"created", "sleep(1)"}
    /\ tasks' =
          [tasks EXCEPT !.source_update_task =
              IF ~config_loader.is_set THEN "sleep(1)"
              ELSE IF async_with(PipelineDownloaderProtocol) = "TypeError"
              THEN "raised"
              ELSE "run"]
    /\ UNCHANGED <<phase, WATCHED_NAMESPACES, config_loader, handlers, blocked, data_vars, sync_vars, extra_vars,
                   agent_vars, updater_vars, config_vars, downloader_vars, backend_vars>>

Done == {"raised", "cancelled"}

\* Task.cancel(): a task that is not done gets CancelledError at its await.
cancel(task) == IF task \in Done THEN task ELSE "cancelling"

shutdown_fn ==
    /\ phase = "running"
    /\ blocked = "none"
    /\ tasks' = [t \in DOMAIN tasks |-> cancel(tasks[t])]
    /\ phase' = "stopped"
    /\ UNCHANGED <<WATCHED_NAMESPACES, config_loader, handlers, blocked, data_vars, sync_vars, extra_vars,
                   agent_vars, updater_vars, config_vars, downloader_vars, backend_vars>>

\* CancelledError is no Exception: the loops' except clauses let it through.
Cancelled ==
    /\ blocked = "none"
    /\ \E t \in DOMAIN tasks :
          /\ tasks[t] = "cancelling"
          /\ tasks' = [tasks EXCEPT ![t] = "cancelled"]
          /\ config_loader' = IF t = "config_update_task"
                              THEN [config_loader EXCEPT !.refreshing = FALSE]
                              ELSE config_loader
    /\ UNCHANGED <<phase, WATCHED_NAMESPACES, handlers, blocked, data_vars, sync_vars, extra_vars, agent_vars,
                   updater_vars, config_vars, downloader_vars, backend_vars>>

\* The cluster reports a create, update or delete of a knowledge base.
KbEvent ==
    /\ phase = "running"
    /\ \E o \in OBJECTS, kind \in {"create", "update", "delete"},
          namespace \in EventNamespaces :
          /\ handlers[o].pending = "none"
          /\ handlers[o].pc = "idle"
          /\ handlers' = [handlers EXCEPT ![o] =
                             [NoHandler EXCEPT !.pending = kind, !.namespace = namespace]]
    /\ UNCHANGED <<phase, WATCHED_NAMESPACES, tasks, config_loader, blocked, data_vars, sync_vars, extra_vars,
                   agent_vars, updater_vars, config_vars, downloader_vars, backend_vars>>

\* The handler registered for the event runs if the filter lets it: it starts
\* the pipeline run and then calls wait_for_pipeline_completion, which does
\* not await and keeps the thread until the run has ended.
KbHandle ==
    /\ phase = "running"
    /\ blocked = "none"
    /\ \E o \in OBJECTS, run_result \in RunResults :
          LET h == handlers[o]
              started == start_of(h.pending, run_result)
              waits == h.pending # "delete" /\ ~started.raised
          IN  /\ h.pending # "none"
              /\ IF ~matches_namespaces(h.namespace, WATCHED_NAMESPACES)
                 THEN /\ handlers' = [handlers EXCEPT ![o] =
                                         [h EXCEPT !.pending = "none", !.kind = h.pending,
                                                   !.outcome = "ignored"]]
                      /\ blocked' = blocked
                 ELSE /\ handlers' = [handlers EXCEPT ![o] =
                            [h EXCEPT !.pending = "none", !.kind = h.pending,
                                      !.calls = IF waits
                                                THEN Append(started.calls,
                                                            wait_of(h.pending, started.run_id))
                                                ELSE started.calls,
                                      !.pc = IF waits THEN "waiting" ELSE "idle",
                                      !.outcome = IF started.raised THEN "raised"
                                                  ELSE IF waits THEN "none"
                                                  ELSE "returned",
                                      !.run_id = started.run_id]]
                      /\ blocked' = IF waits THEN o ELSE blocked
    /\ UNCHANGED <<phase, WATCHED_NAMESPACES, tasks, config_loader, data_vars, sync_vars, extra_vars, agent_vars,
                   updater_vars, config_vars, downloader_vars, backend_vars>>

\* wait_for_run_completion returns, or raises after its timeout.
KbWaitEnds ==
    /\ \E o \in OBJECTS, raised \in BOOLEAN :
          /\ handlers[o].pc = "waiting"
          /\ blocked = o
          /\ handlers' = [handlers EXCEPT ![o].pc = "idle",
                                          ![o].outcome = IF raised THEN "raised"
                                                         ELSE "returned"]
          /\ blocked' = "none"
    /\ UNCHANGED <<phase, WATCHED_NAMESPACES, tasks, config_loader, data_vars, sync_vars, extra_vars, agent_vars,
                   updater_vars, config_vars, downloader_vars, backend_vars>>

----------------------------------------------------------------------------
(* Operator process claims *)

Waiting(o) == handlers[o].pc = "waiting"

LoopAlive(t) == tasks[t] \in {"created", "update_config", "sleep", "sleep(1)", "run"}

\* C21: while a handler waits for its pipeline run to complete, the handler
\* of an event pending for a different object can start, and a background
\* loop that has not ended can take its next step.
C21_HandlersInterleave ==
    \A o \in OBJECTS :
       Waiting(o) =>
          /\ (phase = "running" /\ \E o2 \in OBJECTS \ {o} : handlers[o2].pending # "none")
                => ENABLED KbHandle
          /\ LoopAlive("config_update_task") => ENABLED update_pipeline_config

\* While a handler waits nothing else runs: no other handler starts, no loop
\* steps, no task is cancelled; the only step left is the end of the wait.
C21_WaitHoldsTheLoop ==
    \A o \in OBJECTS :
       Waiting(o) =>
          /\ blocked = o
          /\ ~ENABLED KbHandle
          /\ ~ENABLED update_pipeline_config
          /\ ~ENABLED update_pipelines
          /\ ~ENABLED Cancelled
          /\ ENABLED KbWaitEnds

\* C22: once started, neither background loop ends except by cancellation
\* at shutdown.
C22_LoopsRunUntilCancelled ==
    \A t \in DOMAIN tasks :
       phase = "running" => tasks[t] \notin Done

\* The config-refresh loop alone: it ends only cancelled, and a refresh that
\* raises is followed by the sleep and the next refresh.
C22_ConfigLoopRunsUntilCancelled ==
    /\ phase = "running" => LoopAlive("config_update_task")
    /\ tasks.config_update_task \in Done =>
          phase = "stopped" /\ tasks.config_update_task = "cancelled"

C23_RunNeverInvoked == tasks.source_update_task # "run"

\* C24: when shutdown_fn has returned, both background loops have terminated.
C24_ShutdownAwaitsLoops ==
    phase = "stopped" => \A t \in DOMAIN tasks : tasks[t] \in Done

\* After shutdown no refresh is started, and a task once done stays done.
C24_NoRefreshStartsAfterShutdown ==
    [][ phase = "stopped" =>
           /\ config_loader'.refreshing => config_loader.refreshing
           /\ \A t \in DOMAIN tasks : tasks[t] \in Done => tasks'[t] = tasks[t] ]_vars

\* The event last dispatched for the object, if any.
Dispatched(o) == handlers[o].kind # "none" /\ handlers[o].pending = "none"

Ignored(o) ==
    /\ handlers[o].outcome = "ignored"
    /\ handlers[o].calls = <<>>
    /\ handlers[o].pc = "idle"

\* C26: with a non-empty WATCH_NAMESPACES set, an event of an object whose
\* namespace is not in the set invokes no handler; with an empty or unset
\* WATCH_NAMESPACES every event is handled.
C26_NamespaceFilter ==
    /\ \A o \in OBJECTS :
          Dispatched(o) =>
             (Ignored(o) <=> /\ WATCHED_NAMESPACES # {}
                             /\ handlers[o].namespace \notin WATCHED_NAMESPACES)
    /\ \A namespace_arg \in WatchEnvs :
          watch_namespaces(namespace_arg) = {}
             <=> (~namespace_arg.is_set \/ namespace_arg.value = <<>>)

C26_Witness ==
    /\ WATCHED_NAMESPACES = { <<"team-a">>, <<"team-b">> }
    /\ Dispatched("kb1")
    /\ handlers["kb1"].kind = "create"
    /\ handlers["kb1"].namespace = <<"other">>
    /\ Ignored("kb1")
    /\ Dispatched("kb2")
    /\ handlers["kb2"].namespace = <<"team-a">>
    /\ handlers["kb2"].outcome = "returned"
    /\ handlers["kb2"].calls # <<>>

\* C30: a create or update handler first starts a pipeline run and then waits
\* for exactly the run id the start returned; when the start fails the error
\* propagates and nothing is waited for; the delete handler calls nothing.
C30_StartThenWaitSameRun ==
    \A o \in OBJECTS :
       LET h == handlers[o] IN
       Dispatched(o) /\ ~Ignored(o) =>
          /\ h.kind = "delete" => h.calls = <<>> /\ h.outcome = "returned"
          /\ h.kind # "delete" =>
                /\ h.calls # <<>>
                /\ h.calls[1] = Call("run_pipeline", h.kind)
                /\ h.run_id = "none" => h.calls = <<h.calls[1]>> /\ h.outcome = "raised"
                /\ h.run_id # "none" =>
                      h.calls = <<h.calls[1],
                                  Call("wait_for_pipeline_completion", h.run_id)>>

C30_Witness ==
    /\ Dispatched("kb1")
    /\ handlers["kb1"].kind = "update"
    /\ handlers["kb1"].run_id = "r2"
    /\ handlers["kb1"].calls = <<Call("run_pipeline", "update"),
                                 Call("wait_for_pipeline_completion", "r2")>>
    /\ handlers["kb1"].outcome = "returned"
    /\ Dispatched("kb2")
    /\ handlers["kb2"].kind = "create"
    /\ handlers["kb2"].outcome = "raised"
    /\ handlers["kb2"].calls = <<Call("run_pipeline", "create")>>

----------------------------------------------------------------------------
(* The sync cycle over the snapshot the refresh loop writes *)

NoSync == [pc |-> "idle", name |-> "", config |-> SourceConfig("", None, "none", None)]

\* PipelineUpdater.run: the for statement takes a (name, config) of
\* config.items(), the dict being the loader's own _current_config, and
\* update_source runs up to `await downloader.get_pipeline_files(name, config)`;
\* from a fetch that has ended, the loop goes on to its next item without a
\* suspension in between.  Which item comes next is left open.
run_next ==
    /\ \E name \in DOMAIN _current_config :
          sync' = [pc |-> "fetching", name |-> name, config |-> _current_config[name]]
    /\ UNCHANGED <<config_vars, operator_vars, data_vars, extra_vars, agent_vars, updater_vars,
                   downloader_vars, backend_vars>>

\* The fetch has ended and the for statement ends: run returns, by exhaustion
\* or by the RuntimeError of a dict that changed size.
run_return ==
    /\ sync.pc = "fetching"
    /\ sync' = NoSync
    /\ UNCHANGED <<config_vars, operator_vars, data_vars, extra_vars, agent_vars, updater_vars,
                   downloader_vars, backend_vars>>

----------------------------------------------------------------------------
(* Claims about the snapshot under both loops, checked under SpecSync *)

\* The entry _update_config_items builds from one stored configuration and
\* the secrets of the same refresh.
WholeEntry(stored_config, store) ==
    [url |-> stored_config.url, version |-> stored_config.version,
     auth_type |-> stored_config.auth_type,
     auth_token |-> IF stored_config.auth_type = "none" THEN None
                    ELSE store[stored_config.auth_secret_name]
                            .data[stored_config.auth_secret_key][2]]

\* The step of a refresh leaves the entry of n alone, removes it, or sets it
\* to the whole entry of this refresh.
WholeInstall(n) ==
    \/ n \notin DOMAIN _current_config'
    \/ n \in DOMAIN _current_config /\ _current_config'[n] = _current_config[n]
    \/ /\ n \in DOMAIN refresh.updated_configs
       /\ _current_config'[n] = WholeEntry(refresh.updated_configs[n], refresh'.store)

Reads == sync'.pc = "fetching" /\ sync' # sync

\* C25: under every interleaving of the refresh loop and the sync loop, each
\* source config the updater reads is a complete entry as one refresh
\* installed it: a refresh changes the entry of a name only by replacing it
\* with the entry built from its own stored configuration and secret, the
\* updater takes an entry of the snapshot whole, and what it holds over the
\* fetch is not changed by a refresh that ends meanwhile.
C25_WholeEntries ==
    [][ /\ \A n \in DOMAIN _current_config \cup DOMAIN _current_config' : WholeInstall(n)
        /\ Reads => /\ sync'.name \in DOMAIN _current_config
                    /\ sync'.config = _current_config[sync'.name]
        /\ _current_config' # _current_config => sync' = sync ]_vars

\* The updater holds a bearer entry over its fetch while a refresh has put a
\* plain entry in its place.
C25_Witness ==
    /\ sync.pc = "fetching"
    /\ sync.config.auth_type = "bearer"
    /\ sync.config.auth_token = "test-value"
    /\ refresh.phase = "done"
    /\ refresh.outcome = "returned"
    /\ sync.name \in DOMAIN _current_config
    /\ _current_config[sync.name].auth_type = "none"
    /\ _current_config[sync.name] # sync.config

----------------------------------------------------------------------------
(* AgentData of the ai_operators package: tool dicts and knowledge bases *)

\* A name is the sequence of its pieces, "-" and "_" being pieces of their own.
MyKb == <<"my", "-", "kb">>
Docs == <<"docs">>

\* A tool of the agent spec is a dict; `name` and `type` can be missing.
Dict(type, name) == [k \in {"type", "name"} |-> IF k = "type" THEN type ELSE name]

ToolDicts ==
    { Dict("function", <<"calc">>),
      Dict("function", <<"web", "-", "search", "-", "v2">>),
      Dict("knowledgeBase", MyKb),
      Dict("knowledgeBase", Docs),
      Dict("knowledgeBase", <<>>),
      [k \in {"type"} |-> "knowledgeBase"],
      [k \in {"name"} |-> <<"no", "-", "type">>] }

MaxTools == 2

ToolLists == UNION { [1..n -> ToolDicts] : n \in 0..MaxTools }

\* The AkamaiKnowledgeBase objects a namespace can hold, by name.
AkamaiKnowledgeBase(pipeline_name, pipeline_parameters) ==
    [pipeline_name |-> pipeline_name, pipeline_parameters |-> pipeline_parameters]

KnowledgeBases ==
    [n \in {MyKb, Docs} |->
        IF n = MyKb THEN AkamaiKnowledgeBase("emb", [k \in {"x"} |-> "1"])
        ELSE AkamaiKnowledgeBase("idx", [k \in {"pipeline_name", "top_k"} |-> "5"])]

KbSets == { [n \in ns |-> KnowledgeBases[n]] : ns \in SUBSET DOMAIN KnowledgeBases }

\* dict[key] = value
setitem(d, key, value) == [k \in DOMAIN d \cup {key} |-> IF k = key THEN value ELSE d[k]]

\* d.get(key), None standing for a missing `type` and "" for a missing `name`
get(d, key, default) == IF key \in DOMAIN d THEN d[key] ELSE default

\* A str.replace that replaces the first occurrence only.
replace_first(text, old, new) ==
    [i \in DOMAIN text |->
        IF text[i] = old /\ \A j \in 1..(i - 1) : text[j] # old THEN new ELSE text[i]]

\* str.replace(old, new)
replace(text, old, new) == [i \in DOMAIN text |-> IF text[i] = old THEN new ELSE text[i]]

\* create_kb_data and KBData.to_config_dict: the object is read under kb_name;
\* a 404 is the ValueError of fetch_knowledge_base_config, another API error
\* propagates; the parameters are merged over {"pipeline_name": ...}.
create_kb_data(namespace, kb_name, kbs, fault) ==
    IF fault = "get_custom_object" THEN [raised |-> "ApiException", config |-> <<>>]
    ELSE IF kb_name \notin DOMAIN kbs THEN [raised |-> "ValueError", config |-> <<>>]
    ELSE LET kb_cr == kbs[kb_name] IN
         [raised |-> "none",
          config |-> [k \in {"pipeline_name"} \cup DOMAIN kb_cr.pipeline_parameters |->
                         IF k \in DOMAIN kb_cr.pipeline_parameters
                         THEN kb_cr.pipeline_parameters[k]
                         ELSE kb_cr.pipeline_name]]

\* The tool loop of create_agent_data from tool number i on.  heap holds the
\* dicts by reference: 1..n are the dicts of agent.tools, a copy is a new
\* reference; refs are the dicts appended to `tools`.
RECURSIVE tool_loop(_, _, _, _, _, _)
tool_loop(namespace, heap, i, n, kbs, fault) ==
    IF i > n THEN [raised |-> "none", heap |-> heap, refs |-> <<>>, calls |-> <<>>]
    ELSE
        LET tool_copy == Len(heap) + 1
            copied == Append(heap, heap[i])
            named == IF "name" \in DOMAIN copied[tool_copy]
                     THEN [copied EXCEPT ![tool_copy] =
                              setitem(@, "name", replace(@["name"], "-", "_"))]
                     ELSE copied
            kb_name == get(named[tool_copy], "name", <<>>)
            lookup == get(named[i], "type", None) = "knowledgeBase" /\ kb_name # <<>>
            kb_data == create_kb_data(namespace, kb_name, kbs, fault)
            made == IF lookup THEN <<kb_name>> ELSE <<>>
        IN  IF lookup /\ kb_data.raised # "none"
            THEN [raised |-> kb_data.raised, heap |-> named, refs |-> <<>>, calls |-> made]
            ELSE LET configured == IF lookup
                                   THEN [named EXCEPT ![tool_copy] =
                                            setitem(@, "config", kb_data.config)]
                                   ELSE named
                     rest == tool_loop(namespace, configured, i + 1, n, kbs, fault)
                 IN  [raised |-> rest.raised, heap |-> rest.heap,
                      refs |-> <<tool_copy>> \o rest.refs, calls |-> made \o rest.calls]

\* create_agent_data of ai_operators.agent_operator.model.agent_data: what it
\* returns or raises, the lookups it made, and agent.tools as the call left it.
model_create_agent_data(namespace, name, agent, kbs, svcs, fault) ==
    LET n == Len(agent.tools)
        looped == tool_loop(namespace, agent.tools, 1, n, kbs, fault)
        ep == get_foundation_model_endpoint(agent.foundation_model, svcs, fault)
        raised == IF looped.raised # "none" THEN looped.raised
                  ELSE IF ep.err # NoMsg THEN "ValueError" ELSE "none"
    IN  [raised |-> raised,
         calls |-> looped.calls,
         agent_tools |-> SubSeq(looped.heap, 1, n),
         data |-> IF raised # "none" THEN NoAgentData
                  ELSE [namespace |-> namespace, name |-> name,
                        foundation_model |-> agent.foundation_model,
                        foundation_model_endpoint |-> ep.endpoint,
                        system_prompt |-> agent.system_prompt,
                        routes |-> agent.routes,
                        tools |-> [j \in DOMAIN looped.refs |-> looped.heap[looped.refs[j]]]]]

NoBuild ==
    [agent |-> AgentSpec(Llama, <<>>), kbs |-> [n \in {} |-> KnowledgeBases[n]],
     svcs |-> <<>>, fault |-> "none", done |-> FALSE,
     result |-> model_create_agent_data("", "", AgentSpec(Llama, <<>>),
                                        [n \in {} |-> KnowledgeBases[n]], <<>>, "none")]

\* A handler builds the AgentData of an agent in namespace team-a.
CreateAgentData ==
    /\ ~built.done
    /\ \E tools \in ToolLists, kbs \in KbSets, svcs \in ServiceLists,
          fault \in {"none", "get_custom_object"} :
          LET agent == AgentSpec(Llama, tools) IN
          built' = [agent |-> agent, kbs |-> kbs, svcs |-> svcs, fault |-> fault,
                    done |-> TRUE,
                    result |-> model_create_agent_data("team-a", "agent1", agent,
                                                       kbs, svcs, fault)]
    /\ UNCHANGED <<operator_vars, sync_vars, extra_vars, agent_vars, updater_vars, config_vars,
                   downloader_vars, backend_vars>>

----------------------------------------------------------------------------
(* Claims about AgentData, checked under SpecData *)

Built == built.done /\ built.result.raised = "none"

HasHyphen(text) == \E i \in DOMAIN text : text[i] = "-"

\* text with each hyphen turned into an underscore
Underscored(text, out) ==
    /\ Len(out) = Len(text)
    /\ \A i \in DOMAIN text : out[i] = IF text[i] = "-" THEN "_" ELSE text[i]

\* C27: after create_agent_data has built AgentData, the tools are those of the
\* spec in order, no tool name contains "-", each name being the name of the
\* spec with every hyphen replaced by an underscore; and whether the call
\* returned or raised, the tool list of the spec is as it was before the call.
C27_ToolNamesNormalized ==
    /\ built.done => built.result.agent_tools = built.agent.tools
    /\ Built =>
          /\ Len(built.result.data.tools) = Len(built.agent.tools)
          /\ \A i \in DOMAIN built.agent.tools :
                LET tool == built.agent.tools[i]
                    out == built.result.data.tools[i]
                IN  /\ "name" \in DOMAIN out <=> "name" \in DOMAIN tool
                    /\ "name" \in DOMAIN tool =>
                          /\ ~HasHyphen(out["name"])
                          /\ Underscored(tool["name"], out["name"])

\* A spec with a tool name of two hyphens and a tool without a name was built.
C27_Witness ==
    /\ Built
    /\ Len(built.agent.tools) = 2
    /\ built.agent.tools[1] = Dict("function", <<"web", "-", "search", "-", "v2">>)
    /\ built.result.data.tools[1] = Dict("function", <<"web", "_", "search", "_", "v2">>)
    /\ "name" \notin DOMAIN built.agent.tools[2]
    /\ "name" \notin DOMAIN built.result.data.tools[2]
    /\ built.result.agent_tools = built.agent.tools

\* The knowledgeBase tools of the spec that carry a name.
KbTools(tools) ==
    {i \in DOMAIN tools :
        /\ get(tools[i], "type", None) = "knowledgeBase"
        /\ get(tools[i], "name", <<>>) # <<>>}

\* {pipeline_name} merged with the parameters of the resource
ConfigOf(kb_cr) ==
    [k \in {"pipeline_name"} \cup DOMAIN kb_cr.pipeline_parameters |->
        IF k \in DOMAIN kb_cr.pipeline_parameters THEN kb_cr.pipeline_parameters[k]
        ELSE kb_cr.pipeline_name]

\* The cluster answers, and a service carries the model's label.
Answering == built.fault = "none" /\ built.svcs # <<>>

\* What C28 asks of the tools that were built.
ToolsConfigured ==
    \A i \in DOMAIN built.agent.tools :
       LET out == built.result.data.tools[i] IN
       IF i \in KbTools(built.agent.tools)
       THEN /\ "config" \in DOMAIN out
            /\ out["config"] = ConfigOf(built.kbs[built.agent.tools[i]["name"]])
       ELSE "config" \notin DOMAIN out

\* C28: when every knowledgeBase tool of the spec names a knowledge base that
\* exists in the agent's namespace under the name written in the spec,
\* create_agent_data succeeds, each such tool gets as config {pipeline_name}
\* merged with the parameters of that resource, and tools of any other type
\* get no config.
C28_KbLookupByWrittenName ==
    /\ built.done
    /\ Answering
    /\ \A i \in KbTools(built.agent.tools) : built.agent.tools[i]["name"] \in DOMAIN built.kbs
    => Built /\ ToolsConfigured

\* C28 holds of every spec whose knowledgeBase tools have names without a
\* hyphen; a name with a hyphen is looked up with the hyphen replaced, under
\* which no object exists.
C28_LookupWhenNoHyphen ==
    /\ built.done
    /\ Answering
    /\ \A i \in KbTools(built.agent.tools) :
          /\ built.agent.tools[i]["name"] \in DOMAIN built.kbs
          /\ ~HasHyphen(built.agent.tools[i]["name"])
    => Built /\ ToolsConfigured

C28_LookupUnderReplacedName ==
    built.done =>
       \A j \in DOMAIN built.result.calls : ~HasHyphen(built.result.calls[j])

----------------------------------------------------------------------------
(* Claims about the model endpoint in the handlers, checked under SpecAgent *)

CallsOf(ops) == {i \in DOMAIN invocation.calls : invocation.calls[i].op \in ops}

Matching(model_name) == {i \in DOMAIN services : services[i].model = model_name}

\* <service>.<namespace>.svc.cluster.local of the first matching service
FirstEndpoint(model_name) ==
    LET first == CHOOSE i \in Matching(model_name) : \A j \in Matching(model_name) : i <= j
    IN  <<services[first].name, ".", services[first].namespace, ".svc.cluster.local">>

\* The backend is called with the endpoint of the first matching service.
BackendGetsEndpoint ==
    CallsOf({"create_agent", "update_agent"}) # {} =>
       /\ invocation.agent_data.foundation_model_endpoint # <<>>
       /\ Matching(invocation.agent_data.foundation_model) # {}
       /\ invocation.agent_data.foundation_model_endpoint =
             FirstEndpoint(invocation.agent_data.foundation_model)

\* The service list was read for model_name and no service matches it.
NoMatch(model_name) ==
    /\ \E i \in CallsOf({"get_foundation_model_endpoint"}) :
          invocation.calls[i].arg = model_name
    /\ invocation.error # ApiException("list_service_for_all_namespaces")
    /\ Matching(model_name) = {}

\* The domain error is raised, no backend call is made, and the one status
\* write is set_agent_failed.
FailedThroughSetFailed ==
    /\ invocation.outcome = "raised"
    /\ invocation.error # NoMsg
    /\ invocation.error[1] = "Foundation model '"
    /\ CallsOf({"get_deployment_status", "create_agent", "update_agent"}) = {}
    /\ CallsOf({"set_knowledge_base_error", "set_agent_deployed"}) = {}
    /\ Cardinality(CallsOf({"set_agent_failed"})) = 1
    /\ invocation.wrote = "ok" =>
          /\ agent_status.phase = "Failed"
          /\ agent_status.error = invocation.error

\* C29: in the create and update paths the backend is only called with a
\* non-empty foundation_model_endpoint, that of the first service matching the
\* model; when no service matches, the domain error is raised, the backend is
\* not called, and the handler records phase Failed through set_agent_failed,
\* not through the knowledge-base path.
C29_EndpointOrFailed ==
    invocation.handler \in {"created", "updated"} =>
       /\ BackendGetsEndpoint
       /\ \A agent \in AgentSpecs :
             NoMatch(agent.foundation_model) => FailedThroughSetFailed

\* C29 holds of every agent whose model name does not contain the phrase the
\* except block routes by.
C29_WhenNameLacksPhrase ==
    invocation.handler \in {"created", "updated"} =>
       /\ BackendGetsEndpoint
       /\ \A agent \in AgentSpecs :
             /\ NoMatch(agent.foundation_model)
             /\ ~in_str("Knowledge base", agent.foundation_model)
             => FailedThroughSetFailed

----------------------------------------------------------------------------
(* The resource converter: external spec mappings and decoded entities *)

\* A key or field name is the sequence of its pieces: a word, written with a
\* capital or not, or an underscore.
Piece(w) == [w |-> w, cap |-> FALSE]
Capital(w) == [w |-> w, cap |-> TRUE]
Underscore == Piece("_")

\* embedding_model_name, written from its words
RECURSIVE Snake(_)
Snake(words) ==
    IF Len(words) <= 1 THEN [i \in DOMAIN words |-> Piece(words[i])]
    ELSE <<Piece(words[1]), Underscore>> \o Snake(Tail(words))

\* embeddingModelName, written from its words
Camel(words) == [i \in DOMAIN words |-> IF i = 1 THEN Piece(words[i]) ELSE Capital(words[i])]

\* The rename of a field to its external key: each underscore goes, and the
\* word after it gets a capital.
RECURSIVE to_camel(_)
to_camel(attribute) ==
    IF attribute = <<>> THEN <<>>
    ELSE IF Head(attribute) = Underscore
    THEN IF Len(attribute) = 1 THEN <<>>
         ELSE <<Capital(attribute[2].w)>> \o to_camel(SubSeq(attribute, 3, Len(attribute)))
    ELSE <<Head(attribute)>> \o to_camel(Tail(attribute))

\* The attrs classes of resource.py: their fields, and for a field that holds
\* another class, that class.
KBDataFields == { Snake(<<"url">>) }

KBIndexingFields ==
    { Snake(<<"embedding", "model", "endpoint">>), Snake(<<"embedding", "model", "name">>),
      Snake(<<"embedding", "dimension">>), Snake(<<"embedding", "pipeline">>),
      Snake(<<"db", "host", "read", "write">>), Snake(<<"db", "host", "read">>),
      Snake(<<"db", "name">>), Snake(<<"db", "port">>), Snake(<<"db", "secret", "name">>) }

AkamaiKnowledgeBaseFields == { Snake(<<"data">>), Snake(<<"indexing">>) }

fields(cls) ==
    IF cls = "KBData" THEN KBDataFields
    ELSE IF cls = "KBIndexing" THEN KBIndexingFields
    ELSE AkamaiKnowledgeBaseFields

field_class(cls, attribute) ==
    IF cls # "AkamaiKnowledgeBase" THEN "leaf"
    ELSE IF attribute = Snake(<<"data">>) THEN "KBData" ELSE "KBIndexing"

FieldOf(cls, key) == CHOOSE f \in fields(cls) : to_camel(f) = key

\* converter.structure(mapping, cls) for a class of leaves: a key that is no
\* field is rejected, a field without its key fails the decode.
structure_leaves(mapping, cls) ==
    IF DOMAIN mapping # {to_camel(f) : f \in fields(cls)}
    THEN [raised |-> TRUE, object |-> <<>>]
    ELSE [raised |-> FALSE, object |-> [f \in fields(cls) |-> mapping[to_camel(f)]]]

\* converter.structure(spec, AkamaiKnowledgeBase), recursively
structure(spec) ==
    LET cls == "AkamaiKnowledgeBase"
        part(f) == structure_leaves(spec[to_camel(f)], field_class(cls, f))
    IN  IF DOMAIN spec # {to_camel(f) : f \in fields(cls)}
        THEN [raised |-> TRUE, object |-> <<>>]
        ELSE IF \E f \in fields(cls) : part(f).raised
        THEN [raised |-> TRUE, object |-> <<>>]
        ELSE [raised |-> FALSE, object |-> [f \in fields(cls) |-> part(f).object]]

\* An unstructure that keeps the field names as keys.
unstructure_unrenamed(object) ==
    [f \in DOMAIN object |-> [g \in DOMAIN object[f] |-> object[f][g]]]

\* converter.unstructure(object) of an AkamaiKnowledgeBase, recursively
unstructure(object) ==
    LET cls == "AkamaiKnowledgeBase"
        leaves(o, c) == [k \in {to_camel(g) : g \in DOMAIN o} |-> o[FieldOf(c, k)]]
    IN  [k \in {to_camel(f) : f \in DOMAIN object} |->
            leaves(object[FieldOf(cls, k)], field_class(cls, FieldOf(cls, k)))]

\* The external mappings an event can carry: the keys of sample-spec.yaml with
\* some values varied, one key missing, or a key that no field has.
IndexingKeys ==
    { Camel(<<"embedding", "model", "endpoint">>), Camel(<<"embedding", "model", "name">>),
      Camel(<<"embedding", "dimension">>), Camel(<<"embedding", "pipeline">>),
      Camel(<<"db", "host", "read", "write">>), Camel(<<"db", "host", "read">>),
      Camel(<<"db", "name">>), Camel(<<"db", "port">>), Camel(<<"db", "secret", "name">>) }

UnknownKey == Camel(<<"db", "user">>)

IndexingValues(dimension, port, db_name) ==
    [k \in IndexingKeys \cup {UnknownKey} |->
        IF k = Camel(<<"embedding", "dimension">>) THEN dimension
        ELSE IF k = Camel(<<"db", "port">>) THEN port
        ELSE IF k = Camel(<<"db", "name">>) THEN db_name
        ELSE IF k = Camel(<<"embedding", "model", "name">>) THEN "e5-mistral-7b"
        ELSE "text"]

IndexingMappings ==
    { [k \in keys |-> IndexingValues(dimension, port, db_name)[k]] :
         keys \in {IndexingKeys, IndexingKeys \cup {UnknownKey}}
                     \cup {IndexingKeys \ {k} : k \in IndexingKeys},
         dimension \in {"4096", "768"}, port \in {"5432", "5433"},
         db_name \in {"app", "kb"} }

DataMappings ==
    { [k \in {Camel(<<"url">>)} |-> "https://example.com/kb-data"],
      [k \in {Camel(<<"url">>)} |-> "https://example.com/other"],
      [k \in {Camel(<<"url">>), Camel(<<"branch">>)} |-> "main"],
      [k \in {} |-> ""] }

ExternalSpecs ==
    { [k \in {Camel(<<"data">>), Camel(<<"indexing">>)} |->
          IF k = Camel(<<"data">>) THEN d ELSE x] :
         d \in DataMappings, x \in IndexingMappings }

NoConversion == [done |-> FALSE, spec |-> <<>>, decoded |-> structure(<<>>)]

\* AkamaiKnowledgeBase.from_spec on the spec of an event.
from_spec ==
    /\ ~conversion.done
    /\ \E spec \in ExternalSpecs :
          conversion' = [done |-> TRUE, spec |-> spec, decoded |-> structure(spec)]
    /\ UNCHANGED <<workloads, iteration, operator_vars, data_vars, sync_vars, agent_vars,
                   updater_vars, config_vars, downloader_vars, backend_vars>>

----------------------------------------------------------------------------
(* Claims about the converter, checked under SpecConverter *)

\* All fields present and no other: the keys are those of the sample.
ValidSpec(spec) ==
    /\ DOMAIN spec = {Camel(<<"data">>), Camel(<<"indexing">>)}
    /\ DOMAIN spec[Camel(<<"data">>)] = {Camel(<<"url">>)}
    /\ DOMAIN spec[Camel(<<"indexing">>)] = IndexingKeys

----------------------------------------------------------------------------
(* The iteration of a sync cycle over the live snapshot *)

\* at |-> the key of the item the loop body is working on; size |-> the size
\* of the dict when the iterator was made; yielded |-> the items taken so far.
NoIteration == [pc |-> "idle", at |-> "", size |-> 0, yielded |-> 0, outcome |-> "none"]

\* len(config) as the dict iterator checks it
dict_len(d) == Cardinality(DOMAIN d)

\* update_pipelines calls updater.run(config_loader.config): `config` is the
\* loader's own dict, `for ... in config.items()` makes its iterator, which
\* remembers the size of the dict, and the first item's update_source runs up
\* to its fetch.  For an empty dict run returns at once.
run_starts ==
    /\ iteration.pc = "idle"
    /\ \/ /\ _current_config = <<>>
          /\ iteration' = [NoIteration EXCEPT !.outcome = "returned"]
       \/ \E name \in DOMAIN _current_config :
             iteration' = [pc |-> "fetching", at |-> name,
                           size |-> dict_len(_current_config), yielded |-> 1,
                           outcome |-> "none"]
    /\ UNCHANGED <<conversion, workloads, config_vars, operator_vars, data_vars, sync_vars,
                   agent_vars, updater_vars, downloader_vars, backend_vars>>

\* The fetch has ended and the for statement asks the iterator for the next
\* item, with no suspension in between.  A dict of another size than the one
\* remembered makes it raise `RuntimeError: dictionary changed size during
\* iteration`, which leaves run from the for statement, outside the try of
\* the loop body; otherwise the next item's update_source runs up to its
\* fetch, or the iterator is exhausted and run returns.  Which of the items not
\* yet taken comes next is left open.
run_continues ==
    /\ iteration.pc = "fetching"
    /\ IF dict_len(_current_config) # iteration.size
       THEN iteration' = [NoIteration EXCEPT !.outcome = "RuntimeError"]
       ELSE IF iteration.yielded >= iteration.size
                 \/ DOMAIN _current_config \ {iteration.at} = {}
       THEN iteration' = [NoIteration EXCEPT !.outcome = "returned"]
       ELSE \E name \in DOMAIN _current_config \ {iteration.at} :
               iteration' = [iteration EXCEPT !.at = name, !.yielded = @ + 1]
    /\ UNCHANGED <<conversion, workloads, config_vars, operator_vars, data_vars, sync_vars,
                   agent_vars, updater_vars, downloader_vars, backend_vars>>

----------------------------------------------------------------------------
(* Claims about the iteration of a cycle, checked under SpecCycle *)

CycleEnds == iteration.pc = "fetching" /\ iteration'.pc = "idle"

\* C32: a cycle works on the snapshot it took at its start: when a refresh
\* adds or evicts keys while the cycle is suspended in a fetch, the cycle is
\* not aborted and attempts every source that was in the snapshot at its
\* start, so a cycle ends only by returning after as many sources as the
\* snapshot had then.
C32_CycleKeepsItsSnapshot ==
    [][ CycleEnds =>
           /\ iteration'.outcome = "returned"
           /\ iteration.yielded = iteration.size ]_vars

\* A cycle is cut short only by the RuntimeError, and only when the dict has
\* another size than at the start of the cycle; a refresh that replaces
\* entries and keeps the keys lets the cycle go on.
C32_AbortedOnlyBySizeChange ==
    [][ iteration.pc = "fetching" /\ iteration' # iteration =>
           IF dict_len(_current_config) # iteration.size
           THEN iteration'.pc = "idle" /\ iteration'.outcome = "RuntimeError"
           ELSE \/ iteration'.pc = "fetching" /\ iteration'.yielded = iteration.yielded + 1
                \/ /\ iteration'.pc = "idle"
                   /\ iteration'.outcome = "returned"
                   /\ iteration.yielded = iteration.size ]_vars

----------------------------------------------------------------------------
(* Direct backend delete and the per-agent output directory *)

\* A delete on the Direct backend ended in this state.
DirectDelete == deployer = "K8sDeployer" /\ Called("delete")

\* The output directory as helm template leaves it for the call's AgentData.
Templated == [exists |-> TRUE, data |-> backend_call.agent_data]

----------------------------------------------------------------------------
(* Upload failures, checked under SpecUpdater *)

\* The fetch of the current update_source call returned a modified response.
ModifiedFetchEnds == FetchEnds /\ ~request'.fetch.raised /\ request'.fetch.is_updated

\* C34: a failing upload of one pipeline file is caught, logged and surfaced
\* as a null result: update_source does not raise because of it, every file
\* of the response is still handed to the uploader, and run goes on with the
\* next source of the cycle.
C34_UploadFailureSurfacedAsNull ==
    [][ ModifiedFetchEnds =>
          /\ ~request'.raised
          /\ Len(request'.uploads) = Len(request'.fetch.response.file_paths)
          /\ \A i \in DOMAIN request'.uploads :
                ~request'.uploads[i].raised
                /\ request'.uploads[i].result \in {"version", None}
          /\ cycle'.pc = "running"
          /\ cycle'.next = cycle.next + 1 ]_vars

\* What holds of C34: an upload failure never ends the cycle, which goes on
\* with the next source whether update_source raised or not; and update_source
\* raises after a modified fetch only out of the last upload it made, every
\* upload before it having returned a version or null.
C34_CycleGoesOnAfterRaise ==
    [][ ModifiedFetchEnds =>
          /\ cycle'.pc = "running"
          /\ cycle'.next = cycle.next + 1
          /\ ~cycle'.propagated
          /\ \A i \in DOMAIN request'.uploads :
                i < Len(request'.uploads) =>
                   ~request'.uploads[i].raised
                   /\ request'.uploads[i].result \in {"version", None}
          /\ request'.raised <=>
                /\ request'.uploads # <<>>
                /\ request'.uploads[Len(request'.uploads)].raised
          /\ ~request'.raised =>
                Len(request'.uploads) = Len(request'.fetch.response.file_paths) ]_vars

----------------------------------------------------------------------------
(* Several agents on one cluster: what a backend call reaches *)

\* Agents are identified by namespace and name; two of these share a name.
AGENTS == { <<"team-a", "agent1">>, <<"team-b", "agent1">>, <<"team-a", "agent2">> }

\* The AgentData of an agent, as far as the backends read it.
AgentDataOf(a) == minimal_agent_data(a[1], a[2], AgentSpec(Llama, <<>>))

\* K8sDeployer._get_manifest_dir and the output directory of
\* template_agent_chart: os.path.join("/tmp/agents", agent_name)
_get_manifest_dir(agent_name) == <<"/tmp/agents", agent_name>>

\* kubectl -n <namespace> on manifests named by nameOverride
resource_key(agent_data) == <<agent_data.namespace, agent_data.name>>

AppNames == { app_name(AgentDataOf(a)) : a \in AGENTS }
ManifestDirs == { _get_manifest_dir(a[2]) : a \in AGENTS }

\* The Applications of namespace argocd by name, the directories under
\* /tmp/agents by path, and the applied resources by namespace and name.
NoCluster ==
    [apps |-> [n \in AppNames |-> Absent],
     dirs |-> [d \in ManifestDirs |-> NoManifests],
     resources |-> [k \in AGENTS |-> Absent]]

NoAgentCall ==
    [op |-> "none", agent |-> <<"", "">>, before |-> NoCluster, skipped |-> FALSE,
     err |-> NoMsg]

NoWorkloads == [cluster |-> NoCluster, call |-> NoAgentCall]

\* One operation of the backend b on the cluster: the Application, or the
\* directory and the resources, that the call addresses.
backend_op(b, op, agent_data, cluster, fault) ==
    IF b = "ArgoCDDeployer"
    THEN LET n == app_name(agent_data)
             r == agent_service(b, op, agent_data, cluster.apps[n], NoManifests, fault)
         IN  [err |-> r.err, status |-> r.status,
              cluster |-> [cluster EXCEPT !.apps[n] = r.workload]]
    ELSE LET d == _get_manifest_dir(agent_data.name)
             k == resource_key(agent_data)
             r == agent_service(b, op, agent_data, cluster.resources[k],
                                cluster.dirs[d], fault)
         IN  [err |-> r.err, status |-> r.status,
              cluster |-> [cluster EXCEPT !.resources[k] = r.workload,
                                          !.dirs[d] = r.manifests]]

\* AgentHandler.created, updated and deleted, as far as they call the backend.
handler_call(b, op, agent_data, cluster, fault) ==
    CASE op = "created" ->
            LET s == backend_op(b, "get_deployment_status", agent_data, cluster, fault)
                c == backend_op(b, "create", agent_data, cluster, fault)
            IN  IF s.err # NoMsg
                THEN [err |-> s.err, cluster |-> cluster, skipped |-> FALSE]
                ELSE IF already_deployed(s.status)
                THEN [err |-> NoMsg, cluster |-> cluster, skipped |-> TRUE]
                ELSE [err |-> c.err, cluster |-> c.cluster, skipped |-> FALSE]
      [] op = "updated" ->
            LET u == backend_op(b, "update", agent_data, cluster, fault) IN
            [err |-> u.err, cluster |-> u.cluster, skipped |-> FALSE]
      [] op = "deleted" ->
            LET d == backend_op(b, "delete", agent_data, cluster, fault) IN
            [err |-> d.err, cluster |-> d.cluster, skipped |-> FALSE]

\* kubectl delete -n <namespace> of manifests that were templated for another
\* namespace: whether kubectl refuses them depends on the chart, which is not
\* part of the program, so both outcomes are possible.
DeleteFaults(agent_data, cluster) ==
    LET dir == cluster.dirs[_get_manifest_dir(agent_data.name)] IN
    IF deployer = "K8sDeployer" /\ dir.exists /\ dir.data.namespace # agent_data.namespace
    THEN {"none", "_delete_manifest_dir"}
    ELSE {"none"}

AgentCall(op, a, r) ==
    [op |-> op, agent |-> a, before |-> workloads.cluster, skipped |-> r.skipped,
     err |-> r.err]

AgentCreated ==
    \E a \in AGENTS :
       LET r == handler_call(deployer, "created", AgentDataOf(a), workloads.cluster, "none") IN
       /\ workloads' = [cluster |-> r.cluster, call |-> AgentCall("created", a, r)]
       /\ UNCHANGED <<conversion, iteration, operator_vars, data_vars, sync_vars, agent_vars,
                      updater_vars, config_vars, downloader_vars, backend_vars>>

AgentUpdated ==
    \E a \in AGENTS :
       LET r == handler_call(deployer, "updated", AgentDataOf(a), workloads.cluster, "none") IN
       /\ workloads' = [cluster |-> r.cluster, call |-> AgentCall("updated", a, r)]
       /\ UNCHANGED <<conversion, iteration, operator_vars, data_vars, sync_vars, agent_vars,
                      updater_vars, config_vars, downloader_vars, backend_vars>>

AgentDeleted ==
    \E a \in AGENTS :
       \E fault \in DeleteFaults(AgentDataOf(a), workloads.cluster) :
          LET r == handler_call(deployer, "deleted", AgentDataOf(a), workloads.cluster, fault) IN
          /\ workloads' = [cluster |-> r.cluster, call |-> AgentCall("deleted", a, r)]
          /\ UNCHANGED <<conversion, iteration, operator_vars, data_vars, sync_vars,
                         agent_vars, updater_vars, config_vars, downloader_vars,
                         backend_vars>>

\* The cluster's controller writes the status of a workload it has picked up.
ControllerReports ==
    /\ \/ \E n \in AppNames :
             /\ workloads.cluster.apps[n].status = "empty"
             /\ workloads' = [cluster |-> [workloads.cluster EXCEPT
                                             !.apps[n].status = "nonempty"],
                              call |-> NoAgentCall]
       \/ \E k \in AGENTS :
             /\ workloads.cluster.resources[k].status = "empty"
             /\ workloads' = [cluster |-> [workloads.cluster EXCEPT
                                             !.resources[k].status = "nonempty"],
                              call |-> NoAgentCall]
    /\ UNCHANGED <<conversion, iteration, operator_vars, data_vars, sync_vars, agent_vars,
                   updater_vars, config_vars, downloader_vars, backend_vars>>

----------------------------------------------------------------------------
(* Claims about distinct agents, checked under SpecWorkloads *)

\* The backing workload of agent a in a cluster: the Application made for it,
\* the manifest directory templated for it, and its applied resources.
WorkloadOf(cluster, a) ==
    LET app == cluster.apps[app_name(AgentDataOf(a))]
        dir == cluster.dirs[_get_manifest_dir(a[2])]
    IN  [app |-> IF app.data = AgentDataOf(a) THEN app ELSE Absent,
         dir |-> IF dir.data = AgentDataOf(a) THEN dir ELSE NoManifests,
         resource |-> cluster.resources[a]]

NoWorkload == [app |-> Absent, dir |-> NoManifests, resource |-> Absent]

HandlerRan == workloads.call.op # "none"

\* C35: distinct agents have distinct backing workloads: a created, updated
\* or deleted handler for one agent leaves the workload of every other agent,
\* the same name in another namespace included, as it was, and created skips
\* the creation only on seeing the agent's own workload.
C35_DistinctWorkloads ==
    HandlerRan =>
       /\ \A b \in AGENTS \ {workloads.call.agent} :
             WorkloadOf(workloads.cluster, b) = WorkloadOf(workloads.call.before, b)
       /\ workloads.call.skipped =>
             WorkloadOf(workloads.call.before, workloads.call.agent) # NoWorkload

\* What holds of C35: agents with different names never reach each other's
\* workload, the applied resources of the Direct backend are reached only by
\* calls for their own agent, and created skips only when some workload is
\* stored under the name of its agent.
C35_DistinctNamesApart ==
    HandlerRan =>
       /\ \A b \in AGENTS :
             b[2] # workloads.call.agent[2] =>
                WorkloadOf(workloads.cluster, b) = WorkloadOf(workloads.call.before, b)
       /\ \A b \in AGENTS \ {workloads.call.agent} :
             workloads.cluster.resources[b] = workloads.call.before.resources[b]
       /\ workloads.call.skipped =>
             \E b \in AGENTS :
                /\ b[2] = workloads.call.agent[2]
                /\ WorkloadOf(workloads.call.before, b) # NoWorkload

----------------------------------------------------------------------------
(* The status subresource after a success *)

\* The most recent handler invocation was a create or update that returned.
LastDeploySucceeded ==
    invocation.handler \in {"created", "updated"} /\ invocation.outcome = "returned"

\* C36: whenever the most recent create or update succeeded, the status
\* subresource has phase Deployed and carries no error field and no
\* knowledgeBase.status Error left over from an earlier failed attempt.
C36_NoLeftoverAfterSuccess ==
    LastDeploySucceeded =>
       /\ agent_status.phase = "Deployed"
       /\ agent_status.error = <<>>
       /\ agent_status.kb_status # "Error"
       /\ agent_status.kb_error = <<>>

\* What holds of C36: after a create or update that returned the phase is
\* Deployed and the message is one of the two success messages.
C36_PhaseDeployedAfterSuccess ==
    LastDeploySucceeded =>
       /\ agent_status.phase = "Deployed"
       /\ agent_status.message \in
             { <<"Agent successfully deployed">>, <<"Agent deployment recovered">> }

\* The success writes name neither error nor knowledgeBase: what an earlier
\* failure wrote there is still in the status when a handler has returned.
C36_SuccessLeavesFailureFields ==
    [][ LastDeploySucceeded' =>
          /\ agent_status'.error = agent_status.error
          /\ agent_status'.kb_status = agent_status.kb_status
          /\ agent_status'.kb_error = agent_status.kb_error ]_vars

----------------------------------------------------------------------------
(* A refresh applied at once, checked under SpecSync *)

\* Some step changes the snapshot.
SnapshotChanges == _current_config' # _current_config

\* C37: one refresh applies all of its snapshot changes without a suspension
\* point in between: the snapshot changes only in the step in which a refresh
\* returns, after that step no key absent from the ConfigMap read of that
\* refresh is present, and while a refresh is suspended in its reads the
\* snapshot is as it was; so whatever the pipeline-sync loop takes, in any
\* interleaving, is an entry of a snapshot that no refresh has half applied.
C37_RefreshAppliedAtOnce ==
    [][ /\ SnapshotChanges =>
              /\ RefreshEnds
              /\ refresh'.outcome = "returned"
              /\ sync' = sync
        /\ RefreshEnds /\ refresh'.outcome = "returned" =>
              DOMAIN _current_config' \subseteq DOMAIN refresh.loaded_config
        /\ RefreshEnds /\ refresh'.outcome = "raised" => ~SnapshotChanges
        /\ refresh'.phase = "secrets" => ~SnapshotChanges
        /\ Reads =>
              /\ sync'.name \in DOMAIN _current_config
              /\ refresh.phase = "done" /\ refresh.outcome = "returned" =>
                    sync'.name \in DOMAIN refresh.loaded_config ]_vars

\* A refresh whose ConfigMap no longer had the key the updater is fetching
\* has ended: that key is gone and the key of the read is installed.
C37_Witness ==
    /\ sync.pc = "fetching"
    /\ refresh.phase = "done"
    /\ refresh.outcome = "returned"
    /\ sync.name \notin DOMAIN refresh.loaded_config
    /\ DOMAIN _current_config # {}
    /\ DOMAIN _current_config \subseteq DOMAIN refresh.updated_configs
    /\ sync.name \notin DOMAIN _current_config

----------------------------------------------------------------------------
(* The frame of the response cache, checked under SpecUpdater *)

CacheEntry(cache, name) == IF name \in DOMAIN cache THEN <<cache[name]>> ELSE <<>>

SourceNames == { DefaultSource.name, ExtraSource.name }

\* C38: the cache entry of a source changes only in the step in which a
\* fetch for that source ends modified and every upload for its response has
\* returned, and then to that response; when the fetch raised or an upload
\* raised, the whole cache is as it was, and the next request for the source
\* is built from the entry the cache has then.
C38_CacheChangesOnlyOnSuccess ==
    [][ /\ \A name \in SourceNames :
              CacheEntry(_response_cache', name) # CacheEntry(_response_cache, name) =>
                 /\ FetchEnds
                 /\ request'.name = name
                 /\ ~request'.fetch.raised
                 /\ request'.fetch.is_updated
                 /\ ~request'.raised
                 /\ \A i \in DOMAIN request'.uploads : ~request'.uploads[i].raised
                 /\ Len(request'.uploads) = Len(request'.fetch.response.file_paths)
                 /\ CacheEntry(_response_cache', name) = <<request'.fetch.response>>
        /\ DOMAIN _response_cache' \subseteq SourceNames
        /\ FetchEnds /\ (request'.fetch.raised \/ request'.raised) =>
              _response_cache' = _response_cache
        /\ request'.phase = "fetching" /\ request.phase # "fetching" =>
              request'.kwargs = fetch_kwargs(_response_cache, request'.name) ]_vars

\* An upload raised after a modified fetch: the source keeps the entry of an
\* earlier response, and with it the earlier validators.
C38_Witness ==
    /\ request.phase = "done"
    /\ ~request.fetch.raised
    /\ request.fetch.is_updated
    /\ request.raised
    /\ request.name \in DOMAIN _response_cache
    /\ _response_cache[request.name] # request.fetch.response

----------------------------------------------------------------------------
(* A failing ConfigMap read, checked under SpecConfig *)

\* The step in which update_config reads the ConfigMap and the cluster
\* answers with an error other than 404.
ReadFails == refresh' # refresh /\ refresh'.read = "error"

\* The refresh last started ended in the failing read.
ReadFailed == refresh.read = "error"

\* C39: when reading the ConfigMap fails with a cluster error other than
\* 404, the refresh ends with an error in that step, before any secret is
\* read and with the snapshot untouched: no entry is added, changed or
\* evicted; and the config-refresh loop can start its next refresh from there.
C39_FailedReadTouchesNothing ==
    /\ [][ ReadFails =>
              /\ refresh'.phase = "done"
              /\ refresh'.outcome = "raised"
              /\ refresh'.loaded_config = <<>>
              /\ refresh'.updated_configs = <<>>
              /\ _current_config' = _current_config ]_vars
    /\ [](ReadFailed => refresh.phase = "done" /\ ENABLED RefreshStart)

\* The read failed while the snapshot held entries, which are still there.
C39_Witness ==
    /\ ReadFailed
    /\ refresh.phase = "done"
    /\ refresh.outcome = "raised"
    /\ DOMAIN _current_config = CONFIG_NAMES

----------------------------------------------------------------------------
(* The size limit while streaming, checked under SpecDownloader *)

\* Content-Length is a number over max_size.
AnnouncedOver(response) ==
    /\ response.content_length.present
    /\ response.content_length.numeric
    /\ response.content_length.value > MAX_SIZE

\* The bytes in the output file after each write of the fetch of a response.
WrittenTotals(response) ==
    IF AnnouncedOver(response) THEN <<>>
    ELSE written_totals(response.chunks, 0, MAX_SIZE)

SizeExceeded == download.outcome.error = "SizeExceededException"

\* C40: at every point while a 200 response is streamed the number of bytes
\* written to the output file is at most max_size; SizeExceededException is
\* raised exactly when the numeric Content-Length or the cumulative byte
\* count is strictly greater than max_size, so a body of exactly max_size
\* bytes is written in full and not refused, and an absent or non-numeric
\* Content-Length decides nothing by itself.
C40_WrittenWithinMaxSize ==
    Fetched /\ download.response.status = 200 =>
       LET r == download.response
           totals == WrittenTotals(r)
       IN  /\ \A i \in DOMAIN totals : totals[i] <= MAX_SIZE
           /\ SizeExceeded <=> AnnouncedOver(r) \/ body_size(r.chunks) > MAX_SIZE
           /\ SizeExceeded <=>
                 \/ AnnouncedOver(r)
                 \/ Len(totals) < Len(r.chunks)
           /\ body_size(r.chunks) = MAX_SIZE /\ ~AnnouncedOver(r) =>
                 /\ ~SizeExceeded
                 /\ totals[Len(totals)] = MAX_SIZE
           /\ ~(r.content_length.present /\ r.content_length.numeric) =>
                 (SizeExceeded <=> body_size(r.chunks) > MAX_SIZE)

\* A single file of exactly max_size bytes in one chunk, with a Content-Length
\* that is not a number, is stored and returned.
C40_Witness ==
    /\ Fetched
    /\ download.response.status = 200
    /\ ~IsZip(download.response)
    /\ download.response.chunks = <<MAX_SIZE>>
    /\ download.response.content_length = ContentLength(TRUE, FALSE, 0)
    /\ Returned(TRUE)
    /\ WrittenTotals(download.response) = <<MAX_SIZE>>

----------------------------------------------------------------------------
(* Specifications *)

AgentStart ==
    /\ workload = Absent
    /\ agent_status = NoStatus
    /\ invocation = Idle

UpdaterStart ==
    /\ _response_cache = [n \in {} |-> NoResponse]
    /\ cycle = NoCycle
    /\ request = NoRequest
    /\ inflight = 0
    /\ last_modified_fetch = [n \in {} |-> NoResponse]

ConfigStart ==
    /\ _current_config = [n \in {} |-> SourceConfig("", None, "none", None)]
    /\ refresh = NoRefresh

DownloaderStart ==
    /\ disk = {}
    /\ download = NoDownload

BackendStart ==
    /\ backing = Absent
    /\ manifests = NoManifests
    /\ backend_call = NoBackendCall

OperatorStart ==
    /\ phase = "starting"
    /\ WATCHED_NAMESPACES = {}
    /\ tasks = [config_update_task |-> "none", source_update_task |-> "none"]
    /\ config_loader = NoLoader
    /\ handlers = [o \in OBJECTS |-> NoHandler]
    /\ blocked = "none"

DataStart == built = NoBuild

SyncStart == sync = NoSync

ExtraStart ==
    /\ conversion = NoConversion
    /\ workloads = NoWorkloads
    /\ iteration = NoIteration

AgentInit ==
    /\ kb_crs \in SUBSET KB_NAMES
    /\ services \in ServiceLists
    /\ AgentStart
    /\ UpdaterStart
    /\ ConfigStart
    /\ DownloaderStart
    /\ deployer = "ArgoCDDeployer"
    /\ BackendStart
    /\ OperatorStart
    /\ DataStart
    /\ SyncStart
    /\ ExtraStart

AgentNext ==
    \/ created
    \/ updated
    \/ deleted
    \/ KnowledgeBaseChange
    \/ ServiceChange
    \/ WorkloadChange

UpdaterInit ==
    /\ kb_crs = {}
    /\ services = <<>>
    /\ AgentStart
    /\ UpdaterStart
    /\ ConfigStart
    /\ DownloaderStart
    /\ deployer = "ArgoCDDeployer"
    /\ BackendStart
    /\ OperatorStart
    /\ DataStart
    /\ SyncStart
    /\ ExtraStart

UpdaterNext ==
    \/ RunStart
    \/ FetchStart
    \/ FetchDone
    \/ RunEnd

ConfigInit ==
    /\ kb_crs = {}
    /\ services = <<>>
    /\ AgentStart
    /\ UpdaterStart
    /\ ConfigStart
    /\ DownloaderStart
    /\ deployer = "ArgoCDDeployer"
    /\ BackendStart
    /\ OperatorStart
    /\ DataStart
    /\ SyncStart
    /\ ExtraStart

ConfigNext ==
    \/ RefreshStart
    \/ RefreshFinish

DownloaderInit ==
    /\ kb_crs = {}
    /\ services = <<>>
    /\ AgentStart
    /\ UpdaterStart
    /\ ConfigStart
    /\ DownloaderStart
    /\ deployer = "ArgoCDDeployer"
    /\ BackendStart
    /\ OperatorStart
    /\ DataStart
    /\ SyncStart
    /\ ExtraStart

DownloaderNext == Download

BackendInit ==
    /\ kb_crs = {}
    /\ services = <<>>
    /\ AgentStart
    /\ UpdaterStart
    /\ ConfigStart
    /\ DownloaderStart
    /\ deployer \in BACKENDS
    /\ BackendStart
    /\ OperatorStart
    /\ DataStart
    /\ SyncStart
    /\ ExtraStart

BackendNext ==
    \/ Create
    \/ Update
    \/ Delete
    \/ ManifestsLost
    \/ GetStatus
    \/ BackingChange

OperatorInit ==
    /\ kb_crs = {}
    /\ services = <<>>
    /\ AgentStart
    /\ UpdaterStart
    /\ ConfigStart
    /\ DownloaderStart
    /\ deployer = "ArgoCDDeployer"
    /\ BackendStart
    /\ OperatorStart
    /\ DataStart
    /\ SyncStart
    /\ ExtraStart

OperatorNext ==
    \/ startup_fn
    \/ update_pipeline_config
    \/ update_pipelines
    \/ shutdown_fn
    \/ Cancelled
    \/ KbEvent
    \/ KbHandle
    \/ KbWaitEnds

SyncInit ==
    /\ kb_crs = {}
    /\ services = <<>>
    /\ AgentStart
    /\ UpdaterStart
    /\ ConfigStart
    /\ DownloaderStart
    /\ deployer = "ArgoCDDeployer"
    /\ BackendStart
    /\ OperatorStart
    /\ DataStart
    /\ SyncStart
    /\ ExtraStart

SyncNext ==
    \/ RefreshStart
    \/ RefreshFinish
    \/ run_next
    \/ run_return

DataInit ==
    /\ kb_crs = {}
    /\ services = <<>>
    /\ AgentStart
    /\ UpdaterStart
    /\ ConfigStart
    /\ DownloaderStart
    /\ deployer = "ArgoCDDeployer"
    /\ BackendStart
    /\ OperatorStart
    /\ DataStart
    /\ SyncStart
    /\ ExtraStart

DataNext == CreateAgentData

ConverterInit ==
    /\ kb_crs = {}
    /\ services = <<>>
    /\ AgentStart
    /\ UpdaterStart
    /\ ConfigStart
    /\ DownloaderStart
    /\ deployer = "ArgoCDDeployer"
    /\ BackendStart
    /\ OperatorStart
    /\ DataStart
    /\ SyncStart
    /\ ExtraStart

ConverterNext == from_spec

CycleInit ==
    /\ kb_crs = {}
    /\ services = <<>>
    /\ AgentStart
    /\ UpdaterStart
    /\ ConfigStart
    /\ DownloaderStart
    /\ deployer = "ArgoCDDeployer"
    /\ BackendStart
    /\ OperatorStart
    /\ DataStart
    /\ SyncStart
    /\ ExtraStart

CycleNext ==
    \/ RefreshStart
    \/ RefreshFinish
    \/ run_starts
    \/ run_continues

Init == AgentInit

WorkloadsInit ==
    /\ kb_crs = {}
    /\ services = <<>>
    /\ AgentStart
    /\ UpdaterStart
    /\ ConfigStart
    /\ DownloaderStart
    /\ deployer \in BACKENDS
    /\ BackendStart
    /\ OperatorStart
    /\ DataStart
    /\ SyncStart
    /\ ExtraStart

WorkloadsNext ==
    \/ AgentCreated
    \/ AgentUpdated
    \/ AgentDeleted
    \/ ControllerReports

SpecWorkloads == WorkloadsInit /\ [][WorkloadsNext]_vars

Next ==
    \/ AgentNext
    \/ UpdaterNext
    \/ ConfigNext
    \/ DownloaderNext
    \/ BackendNext
    \/ OperatorNext
    \/ SyncNext
    \/ DataNext
    \/ ConverterNext
    \/ CycleNext
    \/ WorkloadsNext

Spec == Init /\ [][Next]_vars

SpecAgent == AgentInit /\ [][AgentNext]_vars

SpecUpdater == UpdaterInit /\ [][UpdaterNext]_vars

SpecConfig == ConfigInit /\ [][ConfigNext]_vars

SpecDownloader == DownloaderInit /\ [][DownloaderNext]_vars

SpecBackend == BackendInit /\ [][BackendNext]_vars

SpecOperator == OperatorInit /\ [][OperatorNext]_vars

SpecSync == SyncInit /\ [][SyncNext]_vars

SpecData == DataInit /\ [][DataNext]_vars

SpecConverter == ConverterInit /\ [][ConverterNext]_vars

SpecCycle == CycleInit /\ [][CycleNext]_vars

====
